---- MODULE Spec2Model ----
(***************************************************************************)
(* Verification model of the NUMA-aware query runtime:                     *)
(*   - VamPointer / AllocationInfo  (utils/vmalloc/VamPointer.hpp)          *)
(*   - ThreadWrapper / ThreadGroup / ThreadManager (utils/threads)         *)
(*   - get_cpu_id (utils/cpu_set_utils.hpp), MemoryConfig, VamProphecy,    *)
(*     vmalloc (utils/vmalloc), query() (query.cpp, query.hpp)             *)
(* The specifications of the module:                                      *)
(*   SpecPtr   whole VamPointer operations applied one after another       *)
(*   SpecSplit vmalloc, copies, destructors and split only                 *)
(*   SpecSize  vmalloc, copies, split, manipulate_size and destructors      *)
(*   SpecConc  the same operations, interleaved at their atomic accesses   *)
(*   SpecThr   thread groups: create, run, run_async, join, destruction    *)
(*   SpecAsync run_async and the join of its handle, fairly scheduled      *)
(*   SpecTM    groups created and run through ThreadManager::run           *)
(*   SpecStart run_async, ThreadManager::run and ThreadManager::run_async  *)
(*   SpecPin   ThreadManager::create_thread_group and automatic pinning    *)
(*   SpecCpu   get_cpu_id over pin ranges                                  *)
(*   SpecPinLoop the ThreadManager constructor and the loop of get_cpu_id  *)
(*   SpecMem   MemoryConfig, VamProphecy::predict and vmalloc              *)
(*   SpecAcc   the checked accesses of VamPointer                          *)
(*   SpecQuery query(): the driver and the workers of its five groups      *)
(*   SpecWatch stop_watch under a caller; the timers of a group's workers  *)
(***************************************************************************)
EXTENDS Integers, Sequences, FiniteSets, TLC

\* ------------------------------------------------------------------ bounds
MaxHandles == 2      \* VamPointer objects that exist at the same time
MaxAllocs == 1       \* vmalloc calls per behaviour
MaxElems == 3        \* largest element count passed to vmalloc / manipulate_size
MaxSlivers == 3      \* largest sliver_count passed to split
ConcThreads == 2     \* threads of SpecConc
ConcHandles == 3     \* VamPointer objects of SpecConc
ConcAllocs == 2      \* vmalloc calls per behaviour of SpecConc

\* ----------------------------------------------------- program constants
\* std::atomic<uint32_t> ref_cnt: arithmetic is modulo 2^32.  The checker's
\* integers are 32 bit, so the modulus is scaled to 2^16; only the wrap of
\* 0 - 1 to the largest value matters.
RefMod == 65536
\* sizeof(base_t) of the two element types of the model: a narrow and a wide
\* integer (uint8_t, uint16_t)
TypeSizes == {1, 2}
\* segment_size_bytes template arguments of the model
SegSizes == {2}

VARIABLES
    handles,   \* VamPointer objects: slot -> (live, alloc_info, start, size_bytes, sizeof(base_t), segment_size_bytes)
    allocs,    \* AllocationInfo records and the memory they describe
    perr,      \* undefined behaviour met so far (null dereference, use after free)
    slivers,   \* the vector a split returned, until it is destroyed
    lastop,    \* the last completed VamPointer operation and what it returned
    thr,       \* SpecConc: the operation each thread is in the middle of
    grp,       \* ThreadGroup objects: promise, flag, worker threads
    main,      \* the calling thread: the operation it is in, what the last one returned
    terr,      \* std::terminate was called / two threads joined one thread at once
    tm,        \* ThreadManager: pin policy and range, next_core_index, thread_pinnings
    call,      \* the last call of a function without side effects and what it returned
    q,         \* query(): the driver's position, the tables and the intermediate columns
    sw         \* stop watches: rounds, current, taking_time; the clock; the threads that use them

vars == <<handles, slivers, allocs, perr, lastop, thr, grp, main, terr, tm, call, q, sw>>
\* what the operations of VamPointer / of the thread classes leave alone
xvars == <<tm, call, q, sw>>
tvars == <<grp, main, terr, xvars>>
pvars == <<handles, slivers, allocs, perr, lastop, thr, xvars>>

Slots == 1..MaxHandles
AllocIds == 1..MaxAllocs

\* alloc_info == nullptr
NullAlloc == 0

\* ------------------------------------------------------------ VamPointer
\* a slot that holds no object
NoHandle == [live |-> FALSE, ai |-> NullAlloc, start |-> 0, size_bytes |-> 0,
             tsize |-> 1, seg |-> 2]

\* VamPointer(): size_bytes(0), start(nullptr), alloc_info(nullptr)
EmptyHandle(t, s) == [live |-> TRUE, ai |-> NullAlloc, start |-> 0, size_bytes |-> 0,
                      tsize |-> t, seg |-> s]

NoAlloc == [state |-> "unused", ref_cnt |-> 0, size_bytes |-> 0, frees |-> 0]

\* _copy_attr(from, to): alloc_info, size_bytes and start are taken over, the
\* element type and segment size of `to` stay its own
_copy_attr(from, to) == [to EXCEPT !.ai = from.ai, !.size_bytes = from.size_bytes,
                                   !.start = from.start]

\* _unset_attr(ptr)
_unset_attr(ptr) == [ptr EXCEPT !.ai = NullAlloc, !.size_bytes = 0, !.start = 0]

\* ref_cnt.fetch_sub(1) / fetch_add(1) on AllocationInfo a (uint32 arithmetic)
FetchSub(al, a) == [al EXCEPT ![a].ref_cnt = (@ + RefMod - 1) % RefMod]
FetchAdd(al, a) == [al EXCEPT ![a].ref_cnt = (@ + 1) % RefMod]

\* numa_free(data, size_bytes); delete alloc_info
Release(al, a) == [al EXCEPT ![a].state = "freed", ![a].frees = @ + 1]

\* the test `fetch_sub(1) == 1` of _free_ptr on the value fetch_sub returned
FreeIsLast(old) == old = 1

\* (mutant) the destructor hands every handle to _free_ptr
DtorIsLastMut(old) == old >= 1

\* the test `fetch_sub(1) == 1` of ~VamPointer on the value fetch_sub returned
DtorIsLast(old) == old = 1

\* _free_ptr(ptr): the allocation records after the call
_free_ptr(al, ptr) ==
    IF ptr.ai # NullAlloc
    THEN IF FreeIsLast(al[ptr.ai].ref_cnt)
         THEN Release(FetchSub(al, ptr.ai), ptr.ai)
         ELSE FetchSub(al, ptr.ai)
    ELSE al

\* _free_ptr(ptr): its return value
_free_ptr_ret(al, ptr) == ptr.ai # NullAlloc /\ FreeIsLast(al[ptr.ai].ref_cnt)

\* size()
size(p) == p.size_bytes \div p.tsize

\* segment_count()
segment_count(p) == (p.size_bytes + p.seg - 1) \div p.seg

\* get_segment(index): (offset of the segment in bytes from the allocation's
\* data, element count); defined for index < segment_count()
get_segment(p, index) ==
    LET segment_elements == p.seg \div p.tsize
        offset == index * segment_elements
        remaining_elements == size(p) - offset
    IN  [addr |-> p.start + offset * p.tsize,
         count |-> IF segment_elements < remaining_elements
                   THEN segment_elements ELSE remaining_elements]

\* (mutant) the element count is stored as the byte count
manipulate_size_mut(p, new_size) == [p EXCEPT !.size_bytes = new_size]
\* manipulate_size(new_size)
manipulate_size(p, new_size) == [p EXCEPT !.size_bytes = new_size * p.tsize]

\* (mutant) the remainder reaches one sliver too many
sliver_segment_count_mut(p, sliver_count, i) ==
    (segment_count(p) \div sliver_count)
        + (IF i <= segment_count(p) % sliver_count THEN 1 ELSE 0)

\* split: segments given to sliver i (0-based)
sliver_segment_count(p, sliver_count, i) ==
    (segment_count(p) \div sliver_count)
        + (IF i < segment_count(p) % sliver_count THEN 1 ELSE 0)

RECURSIVE split_offset(_, _, _)
\* split: the value of `offset` (in segments) when sliver i is created
split_offset(p, sliver_count, i) ==
    IF i = 0 THEN 0
    ELSE split_offset(p, sliver_count, i - 1)
            + sliver_segment_count(p, sliver_count, i - 1)

\* split: sliver i (0-based) as emplace_back(*this) and the two assignments
\* leave it
split_sliver(p, sliver_count, i) ==
    [p EXCEPT !.start = p.start + (split_offset(p, sliver_count, i) * (p.seg \div p.tsize)) * p.tsize,
              !.size_bytes = sliver_segment_count(p, sliver_count, i) * p.seg]

\* _cast<new_base_t>(): the attributes of new_ptr
_cast(p, u) == _copy_attr(p, EmptyHandle(u, p.seg))

\* ----------------------------------------------------------- bookkeeping
FreeSlots == {h \in DOMAIN handles : ~handles[h].live}
LiveSlots == {h \in DOMAIN handles : handles[h].live}
UnusedAllocs == {a \in DOMAIN allocs : allocs[a].state = "unused"}

\* the n lowest free slots, in order
RECURSIVE LowestFree(_, _)
LowestFree(free, n) ==
    IF n = 0 \/ free = {} THEN <<>>
    ELSE LET m == CHOOSE x \in free : \A y \in free : x <= y
         IN  <<m>> \o LowestFree(free \ {m}, n - 1)

NoErr == [nullderef |-> FALSE, crashed |-> FALSE, uaf |-> FALSE]
NoOp == [op |-> "none", h |-> 0, n |-> 0, pre_ref |-> 0]

\* Dereferencing a null alloc_info is undefined: the build either faults
\* (the process stops) or carries on without a visible effect.
NullDerefOutcomes == {[nullderef |-> TRUE, crashed |-> c, uaf |-> perr.uaf] : c \in BOOLEAN}

Running == ~perr.crashed

\* VamPointer(size, numa_node): a new AllocationInfo with ref_cnt 1 and a
\* handle over all of it, in the lowest free slot
VamPointerCtor(n, t, s) ==
    /\ FreeSlots # {} /\ UnusedAllocs # {}
    /\ LET h == LowestFree(FreeSlots, 1)[1]
           a == CHOOSE x \in UnusedAllocs : \A y \in UnusedAllocs : x <= y
       IN  /\ handles' = [handles EXCEPT ![h] =
                            [live |-> TRUE, ai |-> a, start |-> 0,
                             size_bytes |-> n * t, tsize |-> t, seg |-> s]]
           /\ allocs' = [allocs EXCEPT ![a] =
                            [state |-> "live", ref_cnt |-> 1, size_bytes |-> n * t, frees |-> 0]]

\* --------------------------------------------- SpecPtr: whole operations
\* vmalloc<base_t, segment_size_bytes>(size_elem): VamPointer(size, numa_node)
Vmalloc(n, t, s) ==
    /\ Running
    /\ VamPointerCtor(n, t, s)
    /\ lastop' = NoOp
    /\ UNCHANGED <<slivers, perr, thr, tvars>>

\* VamPointer(): a default-constructed (empty) handle
DefaultCtor(t, s) ==
    /\ Running
    /\ FreeSlots # {}
    /\ LET h == LowestFree(FreeSlots, 1)[1]
       IN  /\ handles' = [handles EXCEPT ![h] = EmptyHandle(t, s)]
           /\ lastop' = NoOp
    /\ UNCHANGED <<slivers, allocs, perr, thr, tvars>>

\* VamPointer(const this_t &other)
CopyCtor(o) ==
    /\ Running
    /\ handles[o].live /\ FreeSlots # {}
    /\ LET h == LowestFree(FreeSlots, 1)[1]
           new == _copy_attr(handles[o], EmptyHandle(handles[o].tsize, handles[o].seg))
       IN  /\ handles' = [handles EXCEPT ![h] = new]
           /\ lastop' = NoOp
           /\ IF new.ai = NullAlloc
              THEN /\ perr' \in NullDerefOutcomes
                   /\ allocs' = allocs
              ELSE /\ allocs' = FetchAdd(allocs, new.ai)
                   /\ perr' = perr
    /\ UNCHANGED <<slivers, thr, tvars>>

\* VamPointer(this_t &&other)
MoveCtor(o) ==
    /\ Running
    /\ handles[o].live /\ FreeSlots # {}
    /\ LET h == LowestFree(FreeSlots, 1)[1]
           new == _copy_attr(handles[o], EmptyHandle(handles[o].tsize, handles[o].seg))
       IN  /\ handles' = [handles EXCEPT ![h] = new, ![o] = _unset_attr(handles[o])]
           /\ lastop' = NoOp
    /\ UNCHANGED <<slivers, allocs, perr, thr, tvars>>

\* ~VamPointer(): the allocation records after the destructor ran
DtorAllocs(al, p) ==
    IF p.ai = NullAlloc THEN al
    ELSE IF DtorIsLast(al[p.ai].ref_cnt)
         THEN _free_ptr(FetchSub(al, p.ai), p)
         ELSE FetchSub(al, p.ai)

\* ~VamPointer()
Dtor(h) ==
    /\ Running
    /\ handles[h].live
    /\ allocs' = DtorAllocs(allocs, handles[h])
    /\ handles' = [handles EXCEPT ![h] = NoHandle]
    /\ lastop' = NoOp
    /\ UNCHANGED <<slivers, perr, thr, tvars>>

\* operator=(const this_t &other)
CopyAssign(h, o) ==
    /\ Running
    /\ handles[h].live /\ handles[o].live
    /\ lastop' = NoOp
    /\ IF h = o
       THEN UNCHANGED <<handles, allocs, perr>>
       ELSE LET al1 == _free_ptr(allocs, handles[h])
                new == _copy_attr(handles[o], handles[h])
            IN  /\ handles' = [handles EXCEPT ![h] = new]
                /\ IF new.ai = NullAlloc
                   THEN /\ perr' \in NullDerefOutcomes
                        /\ allocs' = al1
                   ELSE /\ allocs' = FetchAdd(al1, new.ai)
                        /\ perr' = perr
    /\ UNCHANGED <<slivers, thr, tvars>>

\* operator=(this_t &&other)
MoveAssign(h, o) ==
    /\ Running
    /\ handles[h].live /\ handles[o].live
    /\ lastop' = NoOp
    /\ IF h = o
       THEN UNCHANGED <<handles, allocs>>
       ELSE /\ allocs' = _free_ptr(allocs, handles[h])
            /\ handles' = [handles EXCEPT ![h] = _copy_attr(handles[o], handles[h]),
                                          ![o] = _unset_attr(handles[o])]
    /\ UNCHANGED <<slivers, perr, thr, tvars>>

\* split(sliver_count): the result vector holds sliver_count copies of *this
\* with their own start and size_bytes; each emplace_back(*this) is a copy
\* construction, which on an empty handle dereferences a null alloc_info
Split(h, n) ==
    /\ Running
    /\ handles[h].live
    /\ slivers = <<>>
    /\ LET p == handles[h]
       IN  /\ slivers' = [i \in 1..n |-> split_sliver(p, n, i - 1)]
           /\ IF p.ai = NullAlloc
              THEN /\ perr' \in NullDerefOutcomes
                   /\ allocs' = allocs
                   /\ lastop' = [NoOp EXCEPT !.op = "split", !.h = h, !.n = n]
              ELSE /\ allocs' = [allocs EXCEPT ![p.ai].ref_cnt = (@ + n) % RefMod]
                   /\ perr' = perr
                   /\ lastop' = [NoOp EXCEPT !.op = "split", !.h = h, !.n = n,
                                             !.pre_ref = allocs[p.ai].ref_cnt]
    /\ UNCHANGED <<handles, thr, tvars>>

\* VamPointer(const this_t &other) with a sliver of the result vector as other
CopySliver(i) ==
    /\ Running
    /\ i \in 1..Len(slivers) /\ FreeSlots # {}
    /\ LET h == LowestFree(FreeSlots, 1)[1]
           new == _copy_attr(slivers[i], EmptyHandle(slivers[i].tsize, slivers[i].seg))
       IN  /\ handles' = [handles EXCEPT ![h] = new]
           /\ lastop' = NoOp
           /\ IF new.ai = NullAlloc
              THEN /\ perr' \in NullDerefOutcomes
                   /\ allocs' = allocs
              ELSE /\ allocs' = FetchAdd(allocs, new.ai)
                   /\ perr' = perr
    /\ UNCHANGED <<slivers, thr, tvars>>

RECURSIVE DtorAll(_, _)
\* ~vector<VamPointer>: the destructor of every element, first to last
DtorAll(al, v) ==
    IF v = <<>> THEN al ELSE DtorAll(DtorAllocs(al, Head(v)), Tail(v))

\* the result vector of split goes out of scope
DestroySlivers ==
    /\ Running
    /\ slivers # <<>>
    /\ allocs' = DtorAll(allocs, slivers)
    /\ slivers' = <<>>
    /\ lastop' = NoOp
    /\ UNCHANGED <<handles, perr, thr, tvars>>

\* operator VamPointer<new_base_t, segment_size_bytes>(): _cast
Cast(h, u) ==
    /\ Running
    /\ handles[h].live /\ FreeSlots # {}
    /\ LET d == LowestFree(FreeSlots, 1)[1]
           new == _cast(handles[h], u)
       IN  /\ handles' = [handles EXCEPT ![d] = new]
           /\ lastop' = [NoOp EXCEPT !.op = "cast", !.h = h, !.n = d,
                                     !.pre_ref = IF new.ai = NullAlloc THEN 0 ELSE allocs[new.ai].ref_cnt]
           /\ IF new.ai = NullAlloc
              THEN /\ perr' \in NullDerefOutcomes
                   /\ allocs' = allocs
              ELSE /\ allocs' = FetchAdd(allocs, new.ai)
                   /\ perr' = perr
    /\ UNCHANGED <<slivers, thr, tvars>>

\* what is left of the allocation from the handle's start, in elements
\* (nothing for an empty handle)
Capacity(p) ==
    IF p.ai = NullAlloc \/ p.start > allocs[p.ai].size_bytes THEN 0
    ELSE (allocs[p.ai].size_bytes - p.start) \div p.tsize

\* manipulate_size(new_size); the caller keeps new_size within the allocation
ManipulateSize(h, c) ==
    /\ Running
    /\ handles[h].live
    /\ c <= Capacity(handles[h])
    /\ handles' = [handles EXCEPT ![h] = manipulate_size(handles[h], c)]
    /\ lastop' = [NoOp EXCEPT !.op = "manipulate_size", !.h = h, !.n = c]
    /\ UNCHANGED <<slivers, allocs, perr, thr, tvars>>

NoThread == [pc |-> "idle", h |-> 0, o |-> 0, old |-> 0]

\* the VamPointer specifications create no thread group
NoThreadGroups == grp = <<>> /\ main = <<>> /\ terr = <<>>
\* no ThreadManager, no query and no call recorded
NoCalls == tm = <<>> /\ call = <<>> /\ q = <<>> /\ sw = <<>>

InitPtr ==
    /\ handles = [h \in Slots |-> NoHandle]
    /\ allocs = [a \in AllocIds |-> NoAlloc]
    /\ slivers = <<>>
    /\ perr = NoErr
    /\ lastop = NoOp
    /\ thr = [t \in 1..ConcThreads |-> NoThread]
    /\ NoThreadGroups
    /\ NoCalls

NextPtr ==
    \/ \E t \in TypeSizes, s \in SegSizes : Vmalloc(MaxElems, t, s)
    \/ \E t \in TypeSizes, s \in SegSizes : DefaultCtor(t, s)
    \/ \E o \in Slots : CopyCtor(o)
    \/ \E o \in Slots : MoveCtor(o)
    \/ \E h \in Slots : Dtor(h)
    \/ \E h, o \in Slots : CopyAssign(h, o)
    \/ \E h, o \in Slots : MoveAssign(h, o)
    \/ \E h \in Slots, n \in 1..MaxSlivers : Split(h, n)
    \/ \E i \in 1..MaxSlivers : CopySliver(i)
    \/ DestroySlivers
    \/ \E h \in Slots, u \in TypeSizes : Cast(h, u)
    \/ \E h \in Slots, c \in 0..MaxElems : ManipulateSize(h, c)

SpecPtr == InitPtr /\ [][NextPtr]_vars

\* The operations that make and consume slivers: allocation, copies, split
\* and destruction.
NextSplit ==
    \/ \E t \in TypeSizes, s \in SegSizes : Vmalloc(MaxElems, t, s)
    \/ \E o \in Slots : CopyCtor(o)
    \/ \E h \in Slots : Dtor(h)
    \/ \E h \in Slots, n \in 1..MaxSlivers : Split(h, n)
    \/ \E i \in 1..MaxSlivers : CopySliver(i)
    \/ DestroySlivers

SpecSplit == InitPtr /\ [][NextSplit]_vars


\* SpecSize: vmalloc, copies, split, manipulate_size and destructors
NextSize ==
    \/ \E t \in TypeSizes, s \in SegSizes : Vmalloc(MaxElems, t, s)
    \/ \E o \in Slots : CopyCtor(o)
    \/ \E h \in Slots : Dtor(h)
    \/ \E h \in Slots, n \in 1..MaxSlivers : Split(h, n)
    \/ \E h \in Slots, c \in 0..MaxElems : ManipulateSize(h, c)

SpecSize == InitPtr /\ [][NextSize]_vars

\* -------------------------------------------- SpecAcc: checked accesses
Accessors == {"operator[]", "data", "get_segment"}

\* `start == nullptr`: the handle is empty
IsNull(p) == p.ai = NullAlloc

\* (mutant) the index one past the end is let through
OutOfBoundsMut(index, limit) == index > limit
\* `index >= size()`, `index >= segment_count()`
OutOfBounds(index, limit) == index >= limit

NoCall == [fn |-> "none", h |-> 0, i |-> 0, res |-> "none", addr |-> 0, count |-> 0]

\* operator[](index), data(index), get_segment(index) on handle h: the
\* exception thrown or the address (in bytes from the allocation's data)
\* and, for get_segment, the element count returned
Access(fn, h, index) ==
    /\ Running
    /\ handles[h].live
    /\ LET p == handles[h]
           limit == IF fn = "get_segment" THEN segment_count(p) ELSE size(p)
       IN  call' =
             IF IsNull(p)
             THEN [NoCall EXCEPT !.fn = fn, !.h = h, !.i = index, !.res = "logic_error"]
             ELSE IF OutOfBounds(index, limit)
             THEN [NoCall EXCEPT !.fn = fn, !.h = h, !.i = index, !.res = "out_of_range"]
             ELSE IF fn = "get_segment"
             THEN [fn |-> fn, h |-> h, i |-> index, res |-> "ok",
                   addr |-> get_segment(p, index).addr,
                   count |-> get_segment(p, index).count]
             ELSE [fn |-> fn, h |-> h, i |-> index, res |-> "ok",
                   addr |-> p.start + index * p.tsize, count |-> 1]
    /\ UNCHANGED <<handles, slivers, allocs, perr, lastop, thr, grp, main, terr, tm, q, sw>>

InitAcc ==
    /\ handles = [h \in Slots |-> NoHandle]
    /\ allocs = [a \in AllocIds |-> NoAlloc]
    /\ slivers = <<>>
    /\ perr = NoErr
    /\ lastop = NoOp
    /\ thr = [t \in 1..ConcThreads |-> NoThread]
    /\ NoThreadGroups
    /\ tm = <<>> /\ q = <<>> /\ sw = <<>>
    /\ call = NoCall

\* handles of both element types, full, shrunk and empty, and the accesses
NextAcc ==
    \/ \E t \in TypeSizes, s \in SegSizes : Vmalloc(MaxElems, t, s)
    \/ \E t \in TypeSizes, s \in SegSizes : DefaultCtor(t, s)
    \/ \E h \in Slots, c \in 0..MaxElems : ManipulateSize(h, c)
    \/ \E fn \in Accessors, h \in Slots, i \in 0..MaxElems : Access(fn, h, i)

SpecAcc == InitAcc /\ [][NextAcc]_vars

\* ------------------------- SpecConc: operations interleaved by threads
\* Each thread carries out one VamPointer operation at a time, one shared
\* access (an atomic ref_cnt operation, or the release of the allocation)
\* per step.  An operation's handles (target and source) belong to the thread
\* until the operation is over: threads work on distinct handles.
CSlots == 1..ConcHandles
Threads == 1..ConcThreads

Busy(h) == \E t \in Threads : thr[t].pc # "idle" /\ (thr[t].h = h \/ thr[t].o = h)

\* an access to an AllocationInfo that was deleted
TouchErr(a) == IF allocs[a].state = "freed" THEN [perr EXCEPT !.uaf = TRUE] ELSE perr

\* vmalloc: the allocation is private until the constructor returns
CVmalloc(t) ==
    /\ thr[t].pc = "idle"
    /\ FreeSlots # {} /\ UnusedAllocs # {}
    /\ LET h == LowestFree(FreeSlots, 1)[1]
           a == CHOOSE x \in UnusedAllocs : \A y \in UnusedAllocs : x <= y
       IN  /\ handles' = [handles EXCEPT ![h] =
                            [live |-> TRUE, ai |-> a, start |-> 0,
                             size_bytes |-> MaxElems, tsize |-> 1, seg |-> 2]]
           /\ allocs' = [allocs EXCEPT ![a] =
                            [state |-> "live", ref_cnt |-> 1, size_bytes |-> MaxElems, frees |-> 0]]
    /\ UNCHANGED <<slivers, perr, lastop, thr, tvars>>

\* VamPointer(): an empty handle
CDefaultCtor(t) ==
    /\ thr[t].pc = "idle"
    /\ FreeSlots # {}
    /\ handles' = [handles EXCEPT ![LowestFree(FreeSlots, 1)[1]] = EmptyHandle(1, 2)]
    /\ UNCHANGED <<slivers, allocs, perr, lastop, thr, tvars>>

\* copy constructor, first half: _copy_attr(other, *this)
CCopyBegin(t, o) ==
    /\ thr[t].pc = "idle"
    /\ handles[o].live /\ ~Busy(o) /\ handles[o].ai # NullAlloc
    /\ FreeSlots # {}
    /\ LET h == LowestFree(FreeSlots, 1)[1]
       IN  /\ handles' = [handles EXCEPT ![h] =
                            _copy_attr(handles[o], EmptyHandle(handles[o].tsize, handles[o].seg))]
           /\ thr' = [thr EXCEPT ![t] = [pc |-> "copy_add", h |-> h, o |-> o, old |-> 0]]
    /\ UNCHANGED <<slivers, allocs, perr, lastop, tvars>>

\* copy constructor, second half: alloc_info->ref_cnt.fetch_add(1)
CCopyAdd(t) ==
    /\ thr[t].pc = "copy_add"
    /\ LET a == handles[thr[t].h].ai
       IN  /\ allocs' = FetchAdd(allocs, a)
           /\ perr' = TouchErr(a)
    /\ thr' = [thr EXCEPT ![t] = NoThread]
    /\ UNCHANGED <<handles, slivers, lastop, tvars>>

\* ~VamPointer(), up to and including its own ref_cnt.fetch_sub(1)
CDtorBegin(t, h) ==
    /\ thr[t].pc = "idle"
    /\ handles[h].live /\ ~Busy(h)
    /\ LET a == handles[h].ai
       IN  IF a = NullAlloc
           THEN /\ handles' = [handles EXCEPT ![h] = NoHandle]
                /\ UNCHANGED <<allocs, perr, thr>>
           ELSE /\ allocs' = FetchSub(allocs, a)
                /\ perr' = TouchErr(a)
                /\ IF DtorIsLast(allocs[a].ref_cnt)
                   THEN /\ thr' = [thr EXCEPT ![t] = [pc |-> "dtor_free", h |-> h, o |-> 0,
                                                      old |-> allocs[a].ref_cnt]]
                        /\ handles' = handles
                   ELSE /\ handles' = [handles EXCEPT ![h] = NoHandle]
                        /\ thr' = thr
    /\ UNCHANGED <<slivers, lastop, tvars>>

\* ~VamPointer(): the ref_cnt.fetch_sub(1) of _free_ptr(*this)
CDtorFreePtr(t) ==
    /\ thr[t].pc = "dtor_free"
    /\ LET h == thr[t].h
           a == handles[h].ai
       IN  /\ allocs' = FetchSub(allocs, a)
           /\ perr' = TouchErr(a)
           /\ IF FreeIsLast(allocs[a].ref_cnt)
              THEN /\ thr' = [thr EXCEPT ![t].pc = "dtor_release"]
                   /\ handles' = handles
              ELSE /\ handles' = [handles EXCEPT ![h] = NoHandle]
                   /\ thr' = [thr EXCEPT ![t] = NoThread]
    /\ UNCHANGED <<slivers, lastop, tvars>>

\* _free_ptr after its fetch_sub(1) returned 1: numa_free and delete; then
\* the destructor does _unset_attr(*this) and ends, an assignment goes on
\* with _copy_attr
CRelease(t) ==
    /\ thr[t].pc \in {"dtor_release", "assign_release"}
    /\ allocs' = Release(allocs, handles[thr[t].h].ai)
    /\ IF thr[t].pc = "dtor_release"
       THEN /\ handles' = [handles EXCEPT ![thr[t].h] = NoHandle]
            /\ thr' = [thr EXCEPT ![t] = NoThread]
       ELSE /\ handles' = handles
            /\ thr' = [thr EXCEPT ![t].pc = "assign_attr"]
    /\ UNCHANGED <<slivers, perr, lastop, tvars>>

\* operator=(const this_t &) and operator=(this_t &&), this != &other: the
\* ref_cnt.fetch_sub(1) of _free_ptr(*this); kind is "copy" or "move"
CAssignBegin(t, h, o, kind) ==
    /\ thr[t].pc = "idle"
    /\ h # o
    /\ handles[h].live /\ ~Busy(h) /\ handles[o].live /\ ~Busy(o)
    /\ kind = "copy" => handles[o].ai # NullAlloc
    /\ LET a == handles[h].ai
           last == a # NullAlloc /\ FreeIsLast(allocs[a].ref_cnt)
       IN  /\ allocs' = IF a = NullAlloc THEN allocs ELSE FetchSub(allocs, a)
           /\ perr' = IF a = NullAlloc THEN perr ELSE TouchErr(a)
           /\ thr' = [thr EXCEPT ![t] =
                        [pc |-> IF last THEN "assign_release" ELSE "assign_attr",
                         h |-> h, o |-> o, old |-> IF kind = "copy" THEN 1 ELSE 0]]
    /\ UNCHANGED <<handles, slivers, lastop, tvars>>

\* assignment: _copy_attr(other, *this), then fetch_add(1) on the new
\* alloc_info (copy) or _unset_attr(other) (move)
CAssignAttr(t) ==
    /\ thr[t].pc = "assign_attr"
    /\ LET h == thr[t].h
           o == thr[t].o
           new == _copy_attr(handles[o], handles[h])
       IN  IF thr[t].old = 1
           THEN /\ handles' = [handles EXCEPT ![h] = new]
                /\ allocs' = FetchAdd(allocs, new.ai)
                /\ perr' = TouchErr(new.ai)
           ELSE /\ handles' = [handles EXCEPT ![h] = new, ![o] = _unset_attr(handles[o])]
                /\ UNCHANGED <<allocs, perr>>
    /\ thr' = [thr EXCEPT ![t] = NoThread]
    /\ UNCHANGED <<slivers, lastop, tvars>>

InitConc ==
    /\ handles = [h \in CSlots |-> NoHandle]
    /\ allocs = [a \in 1..ConcAllocs |-> NoAlloc]
    /\ slivers = <<>>
    /\ perr = NoErr
    /\ lastop = NoOp
    /\ thr = [t \in Threads |-> NoThread]
    /\ NoThreadGroups
    /\ NoCalls

NextConc ==
    \E t \in Threads :
        \/ CVmalloc(t)
        \/ CDefaultCtor(t)
        \/ \E o \in CSlots : CCopyBegin(t, o)
        \/ CCopyAdd(t)
        \/ \E h \in CSlots : CDtorBegin(t, h)
        \/ CDtorFreePtr(t)
        \/ CRelease(t)
        \/ \E h, o \in CSlots, kind \in {"copy", "move"} : CAssignBegin(t, h, o, kind)
        \/ CAssignAttr(t)

SpecConc == InitConc /\ [][NextConc]_vars

\* C3: under every interleaving of destructions, copies and assignments of
\* distinct handles, no allocation is released twice, none is released while
\* a live handle other than the one being reassigned still references it,
\* and no thread touches a released AllocationInfo.
C3_NoDoubleFreeNoUseAfterFree ==
    /\ ~perr.uaf
    /\ \A a \in DOMAIN allocs :
          /\ allocs[a].frees <= 1
          /\ allocs[a].state = "freed" =>
                \A h \in DOMAIN handles :
                    (handles[h].live /\ handles[h].ai = a) =>
                        \E t \in Threads : thr[t].pc = "assign_attr" /\ thr[t].h = h

\* C3 witness: a reassignment has just released an allocation (freed once)
\* while the other thread is in the middle of a destructor
C3_Witness ==
    \E a \in DOMAIN allocs, t, u \in Threads :
        /\ allocs[a].state = "freed" /\ allocs[a].frees = 1
        /\ thr[t].pc = "assign_attr" /\ handles[thr[t].h].ai = a
        /\ t # u /\ thr[u].pc = "dtor_free"

\* ------------------------------------- SpecThr: thread groups and workers
MaxGroups == 2       \* thread groups per behaviour
MaxWorkers == 2      \* largest thread_count of a group
MaxThreads == 3      \* worker threads that exist at the same time

Groups == 1..MaxGroups

\* a group id that ThreadManager::thread_groups does not hold yet
NoGroup == [st |-> "none", n |-> 0, fired |-> FALSE, sat |-> FALSE, sets |-> 0,
            runcalled |-> FALSE, hjoined |-> FALSE, w |-> <<>>]

\* a ThreadWrapper whose thread was just created: thread_func waits on start_fut
NewWorker == [pc |-> "wait", inv |-> 0, joinable |-> TRUE, ji |-> 0, jb |-> FALSE]

MainIdle == [op |-> "idle", g |-> 0, k |-> 0, begun |-> FALSE, ids |-> <<>>]
NoRet == [op |-> "none", ids |-> <<>>, res |-> "none"]

Alive == ~terr.terminated

\* a group whose destructor has run: its threads and wrappers are gone
Destroyed == [NoGroup EXCEPT !.st = "destroyed"]

\* the caller's operation ends with result res
Return(op, g, ids, res) ==
    [cur |-> MainIdle, ret |-> [op |-> op, ids |-> ids, res |-> res]]

\* start_fut.wait() returns once the promise is satisfied
BarrierOpenMut(g) == TRUE
BarrierOpen(g) == grp[g].sat

\* (mutant) the first thread of the pool is handed out as join handle
JoinHandleIndexMut(n) == 1
\* run_async: `return thread_pool[thread_count - 1]` (threads numbered from 1)
JoinHandleIndex(n) == n

\* (mutant) the comparison is off by one: no thread joins the others
IsJoinerMut(w, n) == w = n + 1
\* _simple_join: `thread_id == thread_count - 1` (threads numbered from 1)
IsJoiner(w, n) == w = n

RECURSIVE SumWorkers(_)
SumWorkers(gs) ==
    IF gs = {} THEN 0
    ELSE LET g == CHOOSE x \in gs : TRUE
         IN  Len(grp[g].w) + SumWorkers(gs \ {g})

\* the worker threads of the groups that exist
ThreadsInUse == SumWorkers({g \in Groups : grp[g].st \in {"created", "destroying"}})

\* ThreadGroup(...) and initialize(...): thread_count threads are created and
\* wait; start_pistol_fired = false
CreateGroup(g, n) ==
    /\ Alive /\ main.cur.op = "idle"
    /\ grp[g].st = "none"
    /\ ThreadsInUse + n <= MaxThreads
    /\ grp' = [grp EXCEPT ![g] = [NoGroup EXCEPT !.st = "created", !.n = n,
                                                 !.w = [i \in 1..n |-> NewWorker]]]
    /\ main' = Return("create", g, <<>>, "ok")
    /\ UNCHANGED <<terr, pvars>>

\* thread_func: start_fut.wait() returns and std::apply(args.func, args.args)
\* is entered
WStart(g, w) ==
    /\ Alive
    /\ w \in DOMAIN grp[g].w
    /\ grp[g].w[w].pc = "wait"
    /\ BarrierOpen(g)
    /\ grp' = [grp EXCEPT ![g].w[w].pc = "op", ![g].w[w].inv = @ + 1]
    /\ UNCHANGED <<main, terr, pvars>>

\* thread_func: the operator returns and _simple_join() is entered; only the
\* last thread of the group has anything to join
WReturn(g, w) ==
    /\ Alive
    /\ w \in DOMAIN grp[g].w
    /\ grp[g].w[w].pc = "op"
    /\ grp' = [grp EXCEPT ![g].w[w].pc =
                 IF IsJoiner(w, grp[g].n) /\ grp[g].n > 1 THEN "join" ELSE "exit"]
    /\ UNCHANGED <<main, terr, pvars>>

\* the caller is inside thread.join() of thread w of group g
MainJoining(g, w) ==
    /\ main.cur.begun /\ main.cur.g = g
    /\ \/ main.cur.op \in {"run", "dtor"} /\ main.cur.k + 1 = w
       \/ main.cur.op = "hjoin" /\ JoinHandleIndex(grp[g].n) = w
       \/ main.cur.op = "tm_join" /\ JoinHandleIndex(grp[g].n) = w

\* the last worker of group g is inside thread_pool[w - 1]->join()
WorkerJoining(g, w) ==
    /\ grp[g].st # "none"
    /\ \E j \in DOMAIN grp[g].w :
          grp[g].w[j].pc = "join" /\ grp[g].w[j].jb /\ grp[g].w[j].ji + 1 = w

\* ~ThreadGroup has already deleted the wrapper of thread i of group g
WrapperDeleted(g, i) ==
    main.cur.op = "dtor" /\ main.cur.g = g /\ i <= main.cur.k

\* _simple_join: thread_pool[i]->join() is called: std::thread::join throws
\* std::system_error on a thread that is not joinable, and an exception that
\* leaves thread_func ends the process (std::terminate).  On a wrapper that
\* the destructor has deleted the call is undefined: it throws or returns.
WJoinBegin(g, w) ==
    /\ Alive
    /\ w \in DOMAIN grp[g].w
    /\ grp[g].w[w].pc = "join" /\ ~grp[g].w[w].jb
    /\ LET i == grp[g].w[w].ji + 1
       IN  IF WrapperDeleted(g, i)
           THEN \/ /\ terr' = [terminated |-> TRUE, race |-> TRUE]
                   /\ grp' = grp
                \/ /\ terr' = [terr EXCEPT !.race = TRUE]
                   /\ grp' = [grp EXCEPT ![g].w[w].ji = i,
                                  ![g].w[w].pc = IF i = grp[g].n - 1 THEN "exit" ELSE "join"]
           ELSE IF ~grp[g].w[i].joinable
           THEN /\ terr' = [terr EXCEPT !.terminated = TRUE]
                /\ grp' = grp
           ELSE /\ grp' = [grp EXCEPT ![g].w[w].jb = TRUE]
                /\ terr' = IF MainJoining(g, i) THEN [terr EXCEPT !.race = TRUE] ELSE terr
    /\ UNCHANGED <<main, pvars>>

\* _simple_join: thread_pool[i]->join() returns when thread i has ended; after
\* the last join the thread function ends.  When the caller joined the same
\* thread meanwhile the behaviour is undefined: the join returns or throws.
WJoinEnd(g, w) ==
    /\ Alive
    /\ w \in DOMAIN grp[g].w
    /\ grp[g].w[w].pc = "join" /\ grp[g].w[w].jb
    /\ LET i == grp[g].w[w].ji + 1
           done == [grp EXCEPT ![g].w[i].joinable = FALSE,
                               ![g].w[w].jb = FALSE,
                               ![g].w[w].ji = i,
                               ![g].w[w].pc = IF i = grp[g].n - 1 THEN "exit" ELSE "join"]
       IN  /\ grp[g].w[i].pc = "exit"
           /\ \/ grp' = done /\ terr' = terr
              \/ /\ ~grp[g].w[i].joinable
                 /\ grp' = grp /\ terr' = [terr EXCEPT !.terminated = TRUE]
    /\ UNCHANGED <<main, pvars>>

\* start_pistol.set_value(): the group after a call that found the promise
\* unsatisfied (the number of calls is counted up to 2)
SetValue(gr) == [gr EXCEPT !.sat = TRUE, !.sets = IF @ < 2 THEN @ + 1 ELSE @]
\* start_pistol.set_value() on a satisfied promise throws std::future_error
SetValueAgain(gr) == [gr EXCEPT !.sets = IF @ < 2 THEN @ + 1 ELSE @]


\* ThreadGroup::run(): start_pistol.set_value(), then the join loop starts
GRunBegin(g) ==
    /\ Alive /\ main.cur.op = "idle"
    /\ grp[g].st = "created"
    /\ IF grp[g].sat
       THEN /\ grp' = [grp EXCEPT ![g] = [SetValueAgain(@) EXCEPT !.runcalled = TRUE]]
            /\ main' = Return("run", g, <<>>, "future_error")
       ELSE /\ grp' = [grp EXCEPT ![g] = [SetValue(@) EXCEPT !.runcalled = TRUE]]
            /\ main' = [main EXCEPT !.cur = [MainIdle EXCEPT !.op = "run", !.g = g],
                                    !.ret = NoRet]
    /\ UNCHANGED <<terr, pvars>>

\* the caller calls join() on thread main.cur.k + 1 of group main.cur.g
\* (ThreadGroup::run: every thread; ~ThreadWrapper: only when joinable())
MainJoinBegin ==
    /\ Alive /\ main.cur.op \in {"run", "dtor"} /\ ~main.cur.begun
    /\ LET g == main.cur.g
           i == main.cur.k + 1
       IN  IF ~grp[g].w[i].joinable
           THEN IF main.cur.op = "run"
                THEN /\ main' = Return("run", g, <<>>, "system_error")
                     /\ UNCHANGED <<grp, terr>>
                ELSE /\ IF i = grp[g].n
                        THEN /\ main' = Return("dtor", g, <<>>, "ok")
                             /\ grp' = [grp EXCEPT ![g] = Destroyed]
                        ELSE /\ main' = [main EXCEPT !.cur.k = i]
                             /\ grp' = grp
                     /\ terr' = terr
           ELSE /\ main' = [main EXCEPT !.cur.begun = TRUE]
                /\ terr' = IF WorkerJoining(g, i) THEN [terr EXCEPT !.race = TRUE] ELSE terr
                /\ grp' = grp
    /\ UNCHANGED pvars

\* the caller's join() returns: the thread has ended.  When the group's last
\* worker joined the same thread meanwhile the behaviour is undefined: the
\* join returns or throws.
MainJoinEnd ==
    /\ Alive /\ main.cur.op \in {"run", "dtor"} /\ main.cur.begun
    /\ LET g == main.cur.g
           i == main.cur.k + 1
           last == i = grp[g].n
       IN  /\ grp[g].w[i].pc = "exit"
           /\ \/ /\ grp' = IF last /\ main.cur.op = "dtor"
                         THEN [grp EXCEPT ![g] = Destroyed]
                         ELSE [grp EXCEPT ![g].w[i].joinable = FALSE]
                 /\ main' = IF last THEN Return(main.cur.op, g, <<>>, "ok")
                            ELSE [main EXCEPT !.cur.k = i, !.cur.begun = FALSE]
                 /\ terr' = terr
              \/ /\ ~grp[g].w[i].joinable
                 /\ IF main.cur.op = "run"
                    THEN /\ main' = Return("run", g, <<>>, "system_error")
                         /\ terr' = terr
                    ELSE /\ main' = main
                         /\ terr' = [terr EXCEPT !.terminated = TRUE]
                 /\ grp' = grp
    /\ UNCHANGED pvars

\* (mutant) run_async without its guard
AlreadyStartedMut(gr) == FALSE
\* run_async: `if(start_pistol_fired)`
AlreadyStarted(gr) == gr.fired

\* ThreadGroup::run_async()
RunAsync(g) ==
    /\ Alive /\ main.cur.op = "idle"
    /\ grp[g].st = "created"
    /\ IF AlreadyStarted(grp[g])
       THEN /\ grp' = [grp EXCEPT ![g].runcalled = TRUE]
            /\ main' = Return("run_async", g, <<>>, "already_started")
       ELSE IF grp[g].sat
            THEN /\ grp' = [grp EXCEPT ![g] = [SetValueAgain(@) EXCEPT !.runcalled = TRUE]]
                 /\ main' = Return("run_async", g, <<>>, "future_error")
            ELSE /\ grp' = [grp EXCEPT ![g] = [SetValue(@) EXCEPT !.runcalled = TRUE,
                                                                !.fired = TRUE]]
                 /\ main' = Return("run_async", g, <<>>, "ok")
    /\ UNCHANGED <<terr, pvars>>

\* the caller calls join() on the handle run_async returned for group g
HJoinBegin(g) ==
    /\ Alive /\ main.cur.op = "idle"
    /\ grp[g].st = "created" /\ grp[g].fired
    /\ IF ~grp[g].w[JoinHandleIndex(grp[g].n)].joinable
       THEN main' = Return("hjoin", g, <<>>, "system_error")
       ELSE main' = [main EXCEPT !.cur = [MainIdle EXCEPT !.op = "hjoin", !.g = g, !.begun = TRUE],
                                 !.ret = NoRet]
    /\ UNCHANGED <<grp, terr, pvars>>

\* join() on the handle returns: the handle's thread has ended
HJoinEnd ==
    /\ Alive /\ main.cur.op = "hjoin"
    /\ LET g == main.cur.g
           i == JoinHandleIndex(grp[g].n)
       IN  /\ grp[g].w[i].pc = "exit"
           /\ grp' = [grp EXCEPT ![g].w[i].joinable = FALSE, ![g].hjoined = TRUE]
           /\ main' = Return("hjoin", g, <<>>, "ok")
    /\ UNCHANGED <<terr, pvars>>

\* ~ThreadGroup(): `if(!start_pistol_fired) start_pistol.set_value()`; an
\* exception that leaves a destructor ends the process.  Then the wrappers
\* are deleted one by one.
DestroyBegin(g) ==
    /\ Alive /\ main.cur.op = "idle"
    /\ grp[g].st = "created"
    /\ IF ~grp[g].fired /\ grp[g].sat
       THEN /\ grp' = [grp EXCEPT ![g] = SetValueAgain(@)]
            /\ terr' = [terr EXCEPT !.terminated = TRUE]
            /\ main' = main
       ELSE /\ grp' = [grp EXCEPT ![g] = [(IF grp[g].fired THEN @ ELSE SetValue(@))
                                            EXCEPT !.st = "destroying"]]
            /\ main' = [main EXCEPT !.cur = [MainIdle EXCEPT !.op = "dtor", !.g = g],
                                    !.ret = NoRet]
            /\ terr' = terr
    /\ UNCHANGED pvars

MaxIds == 2          \* longest group_ids list passed to ThreadManager::run

\* the group_ids lists ThreadManager::run is called with
IdLists == UNION {[1..l -> Groups] : l \in 1..MaxIds}

\* ThreadManager::run(group_ids) is entered
TMRunBegin(ids) ==
    /\ Alive /\ main.cur.op = "idle"
    /\ \A j \in DOMAIN ids : grp[ids[j]].st \in {"none", "created"}
    /\ main' = [main EXCEPT !.cur = [MainIdle EXCEPT !.op = "tm_start", !.ids = ids],
                            !.ret = NoRet]
    /\ UNCHANGED <<grp, terr, pvars>>

\* ThreadManager::run_async(group_ids) is entered
TMRunAsyncBegin(ids) ==
    /\ Alive /\ main.cur.op = "idle"
    /\ \A j \in DOMAIN ids : grp[ids[j]].st \in {"none", "created"}
    /\ main' = [main EXCEPT !.cur = [MainIdle EXCEPT !.op = "tma_start", !.ids = ids],
                            !.ret = NoRet]
    /\ UNCHANGED <<grp, terr, pvars>>

\* ThreadManager::run and run_async, first loop:
\* thread_groups.at(group_id)->run_async(); at() throws std::out_of_range for
\* an unknown id, and every exception ends the call at once.  After the loop
\* run_async returns the handles and run goes on to join them.
TMRunStart ==
    /\ Alive /\ main.cur.op \in {"tm_start", "tma_start"}
    /\ LET ids == main.cur.ids
           g == ids[main.cur.k + 1]
       IN  IF grp[g].st = "none"
           THEN /\ main' = Return("tm_run", 0, <<>>, "out_of_range")
                /\ grp' = grp
           ELSE IF AlreadyStarted(grp[g])
           THEN /\ main' = Return("tm_run", 0, <<>>, "already_started")
                /\ grp' = [grp EXCEPT ![g].runcalled = TRUE]
           ELSE IF grp[g].sat
           THEN /\ main' = Return("tm_run", 0, <<>>, "future_error")
                /\ grp' = [grp EXCEPT ![g] = [SetValueAgain(@) EXCEPT !.runcalled = TRUE]]
           ELSE /\ grp' = [grp EXCEPT ![g] = [SetValue(@) EXCEPT !.runcalled = TRUE,
                                                               !.fired = TRUE]]
                /\ main' = IF main.cur.k + 1 < Len(ids)
                           THEN [main EXCEPT !.cur.k = @ + 1]
                           ELSE IF main.cur.op = "tm_start"
                           THEN [main EXCEPT !.cur.op = "tm_join", !.cur.k = 0, !.cur.g = ids[1]]
                           ELSE Return("tm_run_async", 0, <<>>, "ok")
    /\ UNCHANGED <<terr, pvars>>

\* ThreadManager::run, second loop: thread->join() is called on a handle
TMJoinBegin ==
    /\ Alive /\ main.cur.op = "tm_join" /\ ~main.cur.begun
    /\ LET g == main.cur.g
       IN  IF ~grp[g].w[JoinHandleIndex(grp[g].n)].joinable
           THEN main' = Return("tm_run", 0, <<>>, "system_error")
           ELSE main' = [main EXCEPT !.cur.begun = TRUE]
    /\ UNCHANGED <<grp, terr, pvars>>

\* ThreadManager::run, second loop: the join returns; after the last one
\* run() returns
TMJoinEnd ==
    /\ Alive /\ main.cur.op = "tm_join" /\ main.cur.begun
    /\ LET g == main.cur.g
           i == JoinHandleIndex(grp[g].n)
           ids == main.cur.ids
           k == main.cur.k + 1
       IN  /\ grp[g].w[i].pc = "exit"
           /\ grp' = [grp EXCEPT ![g].w[i].joinable = FALSE, ![g].hjoined = TRUE]
           /\ main' = IF k = Len(ids)
                      THEN Return("tm_run", 0, ids, "ok")
                      ELSE [main EXCEPT !.cur.k = k, !.cur.begun = FALSE, !.cur.g = ids[k + 1]]
    /\ UNCHANGED <<terr, pvars>>

InitThr ==
    /\ grp = [g \in Groups |-> NoGroup]
    /\ main = [cur |-> MainIdle, ret |-> NoRet]
    /\ terr = [terminated |-> FALSE, race |-> FALSE]
    /\ handles = <<>> /\ slivers = <<>> /\ allocs = <<>>
    /\ perr = NoErr /\ lastop = NoOp /\ thr = <<>>
    /\ NoCalls

WorkerStep ==
    \E g \in Groups, w \in 1..MaxWorkers :
        \/ WStart(g, w)
        \/ WReturn(g, w)
        \/ WJoinBegin(g, w)
        \/ WJoinEnd(g, w)

NextThr ==
    \/ \E g \in Groups, n \in 1..MaxWorkers : CreateGroup(g, n)
    \/ WorkerStep
    \/ \E g \in Groups : GRunBegin(g)
    \/ MainJoinBegin
    \/ MainJoinEnd
    \/ \E g \in Groups : RunAsync(g)
    \/ \E g \in Groups : HJoinBegin(g)
    \/ HJoinEnd
    \/ \E g \in Groups : DestroyBegin(g)

SpecThr == InitThr /\ [][NextThr]_vars

\* ThreadManager: groups are created and run through ThreadManager::run
NextTM ==
    \/ \E g \in Groups, n \in 1..MaxWorkers : CreateGroup(g, n)
    \/ WorkerStep
    \/ \E ids \in IdLists : TMRunBegin(ids)
    \/ TMRunStart
    \/ TMJoinBegin
    \/ TMJoinEnd

SpecTM == InitThr /\ [][NextTM]_vars

\* groups started with run_async, directly and through ThreadManager::run
\* and ThreadManager::run_async
NextStart ==
    \/ \E g \in Groups, n \in 1..MaxWorkers : CreateGroup(g, n)
    \/ WorkerStep
    \/ \E g \in Groups : RunAsync(g)
    \/ \E ids \in IdLists : TMRunBegin(ids)
    \/ \E ids \in IdLists : TMRunAsyncBegin(ids)
    \/ TMRunStart
    \/ TMJoinBegin
    \/ TMJoinEnd

SpecStart == InitThr /\ [][NextStart]_vars

\* ThreadGroup::run_async and the join of the handle it returns
NextAsync ==
    \/ \E g \in Groups, n \in 1..MaxWorkers : CreateGroup(g, n)
    \/ WorkerStep
    \/ \E g \in Groups : RunAsync(g)
    \/ \E g \in Groups : HJoinBegin(g)
    \/ HJoinEnd

\* the operating system schedules every thread that can take a step; that
\* the operator returns (WReturn) is not assumed
FairAsync ==
    /\ \A g \in Groups, w \in 1..MaxWorkers :
          WF_vars(WStart(g, w) \/ WJoinBegin(g, w) \/ WJoinEnd(g, w))
    /\ WF_vars(HJoinEnd)

SpecAsync == InitThr /\ [][NextAsync]_vars /\ FairAsync

\* ---------------------------------------------------- VamPointer claims
\* the live non-empty handles (named objects and slivers of the result
\* vector) whose alloc_info is a
Holders(a) ==
    Cardinality({h \in DOMAIN handles : handles[h].live /\ handles[h].ai = a})
        + Cardinality({i \in 1..Len(slivers) : slivers[i].ai = a})

RECURSIVE SumSizes(_)
SumSizes(v) == IF v = <<>> THEN 0 ELSE size(Head(v)) + SumSizes(Tail(v))

RECURSIVE SumSegments(_, _)
\* the element counts of segments 0..k-1 of p, added up
SumSegments(p, k) ==
    IF k = 0 THEN 0 ELSE get_segment(p, k - 1).count + SumSegments(p, k - 1)

\* every handle that exists: named objects and slivers
AllHandles ==
    {handles[h] : h \in LiveSlots} \cup {slivers[i] : i \in 1..Len(slivers)}

\* C1: once no live handle references an allocation any more, the allocation
\* has been released (numa_free and delete) exactly once; it is never
\* released twice.
C1_FreedExactlyOnce ==
    \A a \in DOMAIN allocs :
        /\ allocs[a].frees <= 1
        /\ (allocs[a].state # "unused" /\ Holders(a) = 0) => allocs[a].frees = 1

\* C2: the ref_cnt of every allocation that has not been released equals the
\* number of live non-empty handles whose alloc_info points to it.
C2_RefCntIsHandleCount ==
    \A a \in DOMAIN allocs :
        allocs[a].state = "live" => allocs[a].ref_cnt = Holders(a)

\* C4: right after p.split(n) the sizes of the slivers add up to p.size() and
\* every sliver starts a whole number of segments after p.start.
C4_SplitSizesSum ==
    lastop.op = "split" =>
        LET p == handles[lastop.h]
        IN  /\ SumSizes(slivers) = size(p)
            /\ \A i \in 1..Len(slivers) :
                   /\ slivers[i].start >= p.start
                   /\ (slivers[i].start - p.start) % p.seg = 0

\* a handle of 7 segments (14 bytes, 2-byte segments, 1-byte elements)
SevenSegments == [live |-> TRUE, ai |-> 1, start |-> 0, size_bytes |-> 14,
                  tsize |-> 1, seg |-> 2]

C6_SegmentCounts ==
    \A p \in AllHandles :
        p.ai # NullAlloc =>
            /\ \A k \in 0..(segment_count(p) - 1) :
                   /\ get_segment(p, k).count >= 1
                   /\ get_segment(p, k).count <= p.seg \div p.tsize
            /\ SumSegments(p, segment_count(p)) = size(p)

\* ------------------------------------------- cpu_set_utils: get_cpu_id
MaxCpu == 2          \* largest CPU id bounding a sub-range
MaxSubRanges == 2    \* sub-ranges of a range
MaxIndex == 6        \* largest thread_id passed to get_cpu_id

\* subrange_directed_t: [lo, hi) and the reversed flag; a subrange_t is never
\* reversed
SubRanges == {sr \in [lo : 0..MaxCpu, hi : 0..MaxCpu, rev : BOOLEAN] : sr.lo <= sr.hi}

\* cpu_id::length
length(subrange) == subrange.hi - subrange.lo

RECURSIVE TotalLength(_)
TotalLength(range) ==
    IF range = <<>> THEN 0 ELSE length(Head(range)) + TotalLength(Tail(range))

\* range_directed_t with at least one CPU
DirRanges ==
    {r \in UNION {[1..l -> SubRanges] : l \in 1..MaxSubRanges} : TotalLength(r) > 0}
\* range_t (std::vector<std::pair<int, int>>) with at least one CPU
PairRanges == {r \in DirRanges : \A j \in DOMAIN r : ~r[j].rev}

\* (mutant) the loop leaves a sub-range one index too late
InSubRangeMut(thread_id, subrange_size) == thread_id <= subrange_size
\* get_cpu_id: the loop ends when `subrange_size <= thread_id` is false
InSubRange(thread_id, subrange_size) == thread_id < subrange_size

\* get_cpu_id: the while loop, from sub-range i (counted from 1) on; the
\* result is the thread_id left over and the sub-range reached
RECURSIVE get_cpu_id_loop(_, _, _)
get_cpu_id_loop(thread_id, range, i) ==
    IF InSubRange(thread_id, length(range[i]))
    THEN [thread_id |-> thread_id, i |-> i]
    ELSE get_cpu_id_loop(thread_id - length(range[i]), range, (i % Len(range)) + 1)

get_cpu_id(thread_id, range) ==
    LET at == get_cpu_id_loop(thread_id, range, 1)
        subrange == range[at.i]
        id == IF subrange.rev THEN length(subrange) - 1 - at.thread_id
                              ELSE at.thread_id
    IN  id + subrange.lo

\* one call of get_cpu_id
GetCpuId ==
    /\ call.fn = "get_cpu_id" /\ ~call.done
    /\ call' = [call EXCEPT !.done = TRUE, !.res = get_cpu_id(call.thread_id, call.range)]
    /\ UNCHANGED <<handles, slivers, allocs, perr, lastop, thr, grp, main, terr, tm, q, sw>>

InitCpu ==
    /\ call \in [fn : {"get_cpu_id"}, range : DirRanges, thread_id : 0..MaxIndex,
                  done : {FALSE}, res : {0}]
    /\ handles = <<>> /\ slivers = <<>> /\ allocs = <<>>
    /\ perr = NoErr /\ lastop = NoOp /\ thr = <<>>
    /\ NoThreadGroups
    /\ tm = <<>> /\ q = <<>> /\ sw = <<>>

SpecCpu == InitCpu /\ [][GetCpuId]_vars

\* ------------------------------- MemoryConfig, VamProphecy and vmalloc
MaxNode == 2         \* largest NUMA node id of a memory configuration

\* std::numeric_limits<NumaId>::max(), the "nothing found" value
IntMax == 2147483647

NumaIds == 0..MaxNode
\* enum class Memory, enum class AccessPattern
Memory == {"DRAM", "HBM"}
AccessPattern == {"LINEAR", "RANDOM"}

\* node_memory_map: a finite map from node ids to memory types
Configs == UNION {[D -> Memory] : D \in SUBSET NumaIds}

\* std::min over the ids of `nodes`, begun at IntMax
MinNode(nodes) ==
    CHOOSE m \in nodes \cup {IntMax} : \A x \in nodes \cup {IntMax} : m <= x

\* the two std::invalid_argument of MemoryConfig, told apart by their text:
\* "No NUMA node found for memory type" and
\* "No NUMA nodes available in memory configuration"
NoNodeOfType == [st |-> "no_node_of_type", node |-> 0]
NoNodes == [st |-> "no_nodes", node |-> 0]

\* MemoryConfig::get_first_node(Memory mem_type)
get_first_node_of(cfg, mem_type) ==
    LET min_node == MinNode({n \in DOMAIN cfg : cfg[n] = mem_type})
    IN  IF min_node # IntMax THEN [st |-> "ok", node |-> min_node] ELSE NoNodeOfType

\* MemoryConfig::get_first_node()
get_first_node(cfg) ==
    IF DOMAIN cfg = {} THEN NoNodes
    ELSE [st |-> "ok", node |-> MinNode(DOMAIN cfg)]

\* (mutant) the LINEAR path asks for DRAM first
LinearClassMut == "DRAM"
\* VamProphecy::predict: the class the LINEAR path asks for first
LinearClass == "HBM"

\* VamProphecy::predict(pattern)
predict(cfg, pattern) ==
    IF pattern = "LINEAR"
    THEN LET r == get_first_node_of(cfg, LinearClass)
         IN  IF r.st = "ok" THEN r ELSE get_first_node(cfg)
    ELSE get_first_node_of(cfg, "DRAM")

\* (mutant) the default node is the last node
DefaultNodeMut == MaxNode
\* vmalloc(size_elem): `NumaId node = 0`
DefaultNode == 0

\* a call of predict: the configuration loaded and the pattern passed
Predict ==
    /\ call.fn = "predict" /\ ~call.done
    /\ LET r == predict(call.cfg, call.pattern)
       IN  call' = [call EXCEPT !.done = TRUE, !.res = r.st, !.node = r.node]
    /\ UNCHANGED <<handles, slivers, allocs, perr, lastop, thr, grp, main, terr, tm, q, sw>>

\* a call of vmalloc<base_t, segment_size_bytes>(size_elem) (pattern
\* "unspecified") or vmalloc<...>(size_elem, pattern): the node is chosen, then
\* VamPointer(size_elem, node) is constructed; an exception of predict leaves
\* vmalloc before anything is constructed
VmallocCall ==
    /\ call.fn = "vmalloc" /\ ~call.done
    /\ LET r == IF call.pattern = "unspecified" THEN [st |-> "ok", node |-> DefaultNode]
                ELSE predict(call.cfg, call.pattern)
       IN  /\ call' = [call EXCEPT !.done = TRUE, !.res = r.st, !.node = r.node]
           /\ IF r.st = "ok" THEN VamPointerCtor(call.n, call.t, call.s)
              ELSE UNCHANGED <<handles, allocs>>
    /\ UNCHANGED <<slivers, perr, lastop, thr, grp, main, terr, tm, q, sw>>

\* the calls: predict(pattern), vmalloc(n) and vmalloc(n, pattern) with n > 0,
\* under every configuration
InitMem ==
    /\ call \in {c \in [fn : {"predict", "vmalloc"}, cfg : Configs,
                         pattern : AccessPattern \cup {"unspecified"},
                         n : 0..MaxElems, t : TypeSizes, s : SegSizes,
                         done : {FALSE}, res : {"none"}, node : {0}] :
                  IF c.fn = "predict"
                  THEN c.pattern \in AccessPattern /\ c.n = 0 /\ c.t = 1
                  ELSE c.n > 0}
    /\ handles = [h \in Slots |-> NoHandle]
    /\ allocs = [a \in AllocIds |-> NoAlloc]
    /\ slivers = <<>>
    /\ perr = NoErr
    /\ lastop = NoOp
    /\ thr = <<>>
    /\ NoThreadGroups
    /\ tm = <<>> /\ q = <<>> /\ sw = <<>>

NextMem == Predict \/ VmallocCall

SpecMem == InitMem /\ [][NextMem]_vars

\* ------------------------- ThreadManager::create_thread_group and pinning
\* thread_pin_policy
Policies == {"manually", "automatic"}

\* ThreadGroup::pin_threads: thread i of the pool (thread_id i - 1) is pinned
\* by pin_thread_in_range(thread, start_core_index + thread_id, range), which
\* returns the CPU id get_cpu_id gave
pin_threads(thread_count, range, start_core_index) ==
    [i \in 1..thread_count |-> get_cpu_id(start_core_index + (i - 1), range)]

\* (mutant) the unsigned count is tested for being negative
ZeroWorkersMut(thread_count) == thread_count < 0
\* create_thread_group: `if (thread_count == 0)`
ZeroWorkers(thread_count) == thread_count = 0

\* (mutant) the cursor is kept inside the range
NextCoreIndexMut(next_core_index, thread_count, range) ==
    (next_core_index + thread_count) % TotalLength(range)
\* create_thread_group: `next_core_index += thread_count`
NextCoreIndex(next_core_index, thread_count, range) == next_core_index + thread_count

\* ThreadManager::create_thread_group(group_id, thread_count, ...); the
\* arguments are kept with the result
TMCreateGroup(g, thread_count) ==
    /\ Alive /\ main.cur.op = "idle"
    /\ IF ZeroWorkers(thread_count)
       THEN /\ main' = Return("create_thread_group", g, <<g, thread_count>>, "invalid_argument")
            /\ UNCHANGED <<grp, tm>>
       ELSE IF grp[g].st # "none"
       THEN /\ main' = Return("create_thread_group", g, <<g, thread_count>>, "runtime_error")
            /\ UNCHANGED <<grp, tm>>
       ELSE /\ ThreadsInUse + thread_count <= MaxThreads
            /\ grp' = [grp EXCEPT ![g] = [NoGroup EXCEPT !.st = "created", !.n = thread_count,
                                             !.w = [i \in 1..thread_count |-> NewWorker]]]
            /\ tm' = IF tm.pin_policy = "automatic"
                     THEN [tm EXCEPT
                             !.thread_pinnings[g] =
                                 pin_threads(thread_count, tm.pin_range, tm.next_core_index),
                             !.next_core_index =
                                 NextCoreIndex(tm.next_core_index, thread_count, tm.pin_range),
                             !.created = Append(@, g)]
                     ELSE [tm EXCEPT !.created = Append(@, g)]
            /\ main' = Return("create_thread_group", g, <<g, thread_count>>, "ok")
    /\ UNCHANGED <<terr, handles, slivers, allocs, perr, lastop, thr, call, q, sw>>

\* ThreadManager(pin_policy, pin_range): no group, next_core_index = 0; the
\* automatic policy needs a range that is not empty.  `created` lists the
\* group ids in the order of their creation.
InitPin ==
    /\ tm \in [pin_policy : {"automatic"}, pin_range : PairRanges, next_core_index : {0},
                thread_pinnings : {[g \in Groups |-> <<>>]}, created : {<<>>}]
             \cup [pin_policy : {"manually"}, pin_range : {<<>>}, next_core_index : {0},
                   thread_pinnings : {[g \in Groups |-> <<>>]}, created : {<<>>}]
    /\ grp = [g \in Groups |-> NoGroup]
    /\ main = [cur |-> MainIdle, ret |-> NoRet]
    /\ terr = [terminated |-> FALSE, race |-> FALSE]
    /\ handles = <<>> /\ slivers = <<>> /\ allocs = <<>>
    /\ perr = NoErr /\ lastop = NoOp /\ thr = <<>>
    /\ call = <<>> /\ q = <<>> /\ sw = <<>>

NextPin == \E g \in Groups, n \in 0..MaxWorkers : TMCreateGroup(g, n)

SpecPin == InitPin /\ [][NextPin]_vars

\* ------------------------------------------------------------- query()
MaxRows == 3         \* largest data_amount of table R
MaxKey == 1          \* largest key value of R.fk and S.pk
SegElems == 2        \* elements of one column segment (512 in query.cpp)
QWorkers == 2        \* thread_count of the groups of query() (5 in query.cpp)

Keys == 0..MaxKey

\* the groups of query(), in the order of their creation: prober_group,
\* materialize_a, materialize_b, multiply, reduce_add
QGroups == 1..5

\* vmalloc<T, S>(n, LINEAR): a handle over n elements of t bytes with
\* segments of seg bytes (one unit is the size of uint32_t);
\* numa_alloc_onnode gives no memory for n = 0 and start is nullptr
QHandle(n, t, seg) ==
    [live |-> TRUE, ai |-> IF n = 0 THEN NullAlloc ELSE 1, start |-> 0,
     size_bytes |-> n * t, tsize |-> t, seg |-> seg]

\* R.fk: VamPointer<uint32_t, 2048> with data_amount elements
FkH == QHandle(q.N, 1, SegElems)
\* the 64-bit columns with data_amount elements and segments of 4096 bytes
\* (R.a, R.b, positions, joint_a, joint_b, column_a_times_b), as allocated
ColH == QHandle(q.N, 2, 2 * SegElems)
\* lengths and mat_offset: VamPointer<size_t, sizeof(size_t)> with
\* r.fk.segment_count() elements
SegH == QHandle(segment_count(FkH), 2, 2)
\* reduced_ab: VamPointer<int64_t, sizeof(int64_t)> with
\* r.a.segment_count() elements
RedH == QHandle(segment_count(ColH), 2, 2)

\* the SplitWrapper arguments of the five create_thread_group calls, in the
\* order of the call
SplitArgs(g) ==
    CASE g = 1 -> <<FkH, ColH, SegH>>
      [] g \in {2, 3} -> <<ColH, ColH, SegH, SegH>>
      [] g = 4 -> <<ColH, ColH, ColH>>
      [] g = 5 -> <<RedH, ColH>>

\* (mutant) every thread is handed the element after its own
get_value_at_mut(vector, index) ==
    vector[IF index + 1 < Cardinality(DOMAIN vector) THEN index + 1 ELSE 0]
\* get_value_at(vector, index): vector[std::min(index, vector.size())]
get_value_at(vector, index) ==
    vector[IF index < Cardinality(DOMAIN vector) THEN index ELSE Cardinality(DOMAIN vector)]

\* generate_thread_arg_lists: _split_all splits every wrapped argument into
\* thread_count slivers, _transpose gives thread t the tuple of the values
\* at t
generate_thread_arg_lists(thread_count, args) ==
    [t \in 0..(thread_count - 1) |->
        [j \in DOMAIN args |->
            get_value_at([i \in 0..(thread_count - 1) |->
                             split_sliver(args[j], thread_count, i)], t)]]

\* the j-th split argument of worker w (from 1) of group g
Sliver(g, j, w) == generate_thread_arg_lists(QWorkers, SplitArgs(g))[w - 1][j]

\* get_segment(k) of that argument: the index of the segment's first
\* element in the column, and the element count
Seg(g, j, w, k) ==
    LET p == Sliver(g, j, w)
        s == get_segment(p, k)
    IN  [addr |-> s.addr \div p.tsize, count |-> s.count]

\* segments a worker's operator loops over: fk, positions, col_a and data
\* are the first or second split argument
NSeg(g, w) == segment_count(Sliver(g, IF g = 1 THEN 1 ELSE 2, w))

\* a column of n values in memory: the pages behind it are zero up to the
\* end of the last segment
Column(n, val) ==
    [i \in 0..(segment_count(QHandle(n, 1, SegElems)) * SegElems - 1) |->
        IF i < n THEN val[i] ELSE 0]

\* get_segment(index) throws on this handle
Throws(p, index) == IsNull(p) \/ OutOfBounds(index, segment_count(p))

RECURSIVE prober(_, _, _, _)
\* prober_t::operator()(pos, keys, count): the positions j < count, in
\* order, of the keys found in the table
prober(fk, addr, count, table) ==
    IF count = 0 THEN <<>>
    ELSE LET rest == prober(fk, addr, count - 1, table)
         IN  IF fk[addr + count - 1] \in table THEN Append(rest, count - 1) ELSE rest

RECURSIVE col_sum(_, _, _)
\* col_sum_t::operator()(res, data, count): the sum of count elements
col_sum(data, addr, count) ==
    IF count = 0 THEN 0 ELSE data[addr + count - 1] + col_sum(data, addr, count - 1)

\* probing: one pass of the loop, on segment k of worker w's slivers
probing(w, k) ==
    LET f == Seg(1, 1, w, k)
        p == Seg(1, 2, w, k)
        l == Seg(1, 3, w, k)
        m == prober(q.fk, f.addr, f.count, q.table)
    IN  [q EXCEPT !.positions = [i \in DOMAIN @ |->
                                   IF p.addr <= i /\ i < p.addr + Len(m)
                                   THEN m[i - p.addr + 1] ELSE @[i]],
                  !.lengths[l.addr] = Len(m)]

\* Materialize::operator()(out, data, data_end, pos, count): out[t] =
\* data[pos[t]] for t < count
mat(out, off, data, data_ptr, pos, pos_ptr, count) ==
    [i \in DOMAIN out |->
        IF off <= i /\ i < off + count
        THEN data[data_ptr + pos[pos_ptr + (i - off)]] ELSE out[i]]

\* (mutant) the offset and the size are read at the worker's own segment
\* number of the unsplit columns
MatRegionMut(g, w, k) == [off |-> q.mat_offset[k], count |-> q.lengths[k]]
\* materialize_position_list: offset_ptr[0] and size_ptr[0] of pass k
MatRegion(g, w, k) ==
    [off |-> q.mat_offset[Seg(g, 3, w, k).addr], count |-> q.lengths[Seg(g, 4, w, k).addr]]

\* materialize_position_list: one pass of the loop (result.data(offset_ptr[0])
\* is computed by the caller of this operator)
materialize_position_list(result, data, g, w, k) ==
    mat(result, MatRegion(g, w, k).off, data, Seg(g, 1, w, k).addr,
        q.positions, Seg(g, 2, w, k).addr, MatRegion(g, w, k).count)

\* multiply: one pass of the loop
multiply(w, k) ==
    LET a == Seg(4, 2, w, k)
        b == Seg(4, 3, w, k)
        res == Seg(4, 1, w, k)
    IN  [i \in DOMAIN q.prod |->
            IF res.addr <= i /\ i < res.addr + a.count
            THEN q.joint_a[a.addr + (i - res.addr)] * q.joint_b[b.addr + (i - res.addr)]
            ELSE q.prod[i]]

\* reduce_add: one pass of the loop
reduce_add(w, k) ==
    LET d == Seg(5, 2, w, k)
        r == Seg(5, 1, w, k)
    IN  [q.reduced EXCEPT ![r.addr] = col_sum(q.prod, d.addr, d.count)]

RECURSIVE checksum(_)
\* checksum(r, s): the sum of a[i] * b[i] * map[fk[i]] over the first n rows
checksum(n) ==
    IF n = 0 THEN 0
    ELSE checksum(n - 1)
           + (q.a[n - 1] * q.b[n - 1]) * (IF q.fk[n - 1] \in q.pk THEN 1 ELSE 0)

\* (mutant) the driver goes on while the groups still run
ReturnedMut(ids) == main.cur.ids = ids \/ main.ret.ids = ids
\* tm.run(ids) has returned to query()
Returned(ids) ==
    main.cur.op = "idle" /\ main.ret = [op |-> "tm_run", ids |-> ids, res |-> "ok"]

\* building(intermediate_join_buffer, s): get_segment(0) of keys and used
\* (2 * s.data_amount elements each), then every key of S.pk is inserted.
\* An exception leaves query() and main(): the process ends.
QBuild ==
    /\ Alive /\ q.pc = "build"
    /\ LET keys == QHandle(2 * Cardinality(q.pk), 1, SegElems)
       IN  IF Throws(keys, 0)
           THEN /\ q' = [q EXCEPT !.pc = "aborted", !.exit = 134]
                /\ terr' = [terr EXCEPT !.terminated = TRUE]
           ELSE /\ q' = [q EXCEPT !.pc = "probe", !.table = q.pk]
                /\ terr' = terr
    /\ UNCHANGED <<handles, slivers, allocs, perr, lastop, thr, grp, main, tm, call, sw>>

\* tm.run(ids), called when the call before it (prev) has returned and the
\* sequential steps before it are done
QRun(pc, prev, ids) ==
    /\ q.pc = pc
    /\ IF prev = <<>> THEN main.ret = NoRet ELSE Returned(prev)
    /\ TMRunBegin(ids)

\* the operator of worker w of group g, one segment at a time; an exception
\* that leaves the thread function ends the process.  q.wr counts the writes
\* to each element of joint_a (group 2) and joint_b (group 3), q.rd holds
\* the elements the multiply and reduce_add workers have processed.
QWork(g, w) ==
    /\ Alive
    /\ grp[g].w[w].pc = "op"
    /\ q.k[g][w] < NSeg(g, w)
    /\ LET k == q.k[g][w]
           gone == [q EXCEPT !.pc = "aborted", !.exit = 134]
           next == [q EXCEPT !.k[g][w] = k + 1]
           m == MatRegion(g, w, k)
           c == Seg(g, 2, w, k)
       IN  IF \/ \E j \in DOMAIN SplitArgs(g) : Throws(Sliver(g, j, w), k)
              \/ g \in {2, 3} /\ (IsNull(ColH) \/ OutOfBounds(m.off, size(ColH)))
           THEN /\ q' = gone
                /\ terr' = [terr EXCEPT !.terminated = TRUE]
           ELSE /\ terr' = terr
                /\ q' = CASE g = 1 -> [probing(w, k) EXCEPT !.k[g][w] = k + 1]
                           [] g = 2 -> [next EXCEPT
                                 !.joint_a = materialize_position_list(q.joint_a, q.a, g, w, k),
                                 !.wr[g] = [i \in DOMAIN @ |->
                                     IF m.off <= i /\ i < m.off + m.count THEN @[i] + 1 ELSE @[i]]]
                           [] g = 3 -> [next EXCEPT
                                 !.joint_b = materialize_position_list(q.joint_b, q.b, g, w, k),
                                 !.wr[g] = [i \in DOMAIN @ |->
                                     IF m.off <= i /\ i < m.off + m.count THEN @[i] + 1 ELSE @[i]]]
                           [] g = 4 -> [next EXCEPT !.prod = multiply(w, k),
                                 !.rd[g] = @ \cup (c.addr..(c.addr + c.count - 1))]
                           [] g = 5 -> [next EXCEPT !.reduced = reduce_add(w, k),
                                 !.rd[g] = @ \cup (c.addr..(c.addr + c.count - 1))]
    /\ UNCHANGED <<handles, slivers, allocs, perr, lastop, thr, grp, main, tm, call, sw>>

\* the operator returns after its last segment
QWReturn(g, w) ==
    /\ w \in DOMAIN grp[g].w
    /\ q.k[g][w] = NSeg(g, w)
    /\ WReturn(g, w)

\* (mutant) the loop adds the second member of the pair get_segment returns
SegLengthMut(lengths, i) == get_segment(SegH, i).count
\* std::get<0>(join_res.lengths.get_segment(i))[0]
SegLength(lengths, i) == lengths[get_segment(SegH, i).addr \div SegH.tsize]

RECURSIVE prefix(_, _)
\* the value of `offset` after i passes of the mat_offset loop
prefix(lengths, i) ==
    IF i = 0 THEN 0 ELSE prefix(lengths, i - 1) + SegLength(lengths, i - 1)

\* the loop over join_res.lengths.segment_count(): mat_offset[i] = offset;
\* offset += lengths[i]
QOffsets ==
    /\ q.pc = "probe" /\ Returned(<<1>>)
    /\ q' = [q EXCEPT !.pc = "materialize",
                      !.mat_offset = [i \in DOMAIN @ |-> prefix(q.lengths, i)],
                      !.offset = prefix(q.lengths, segment_count(SegH))]
    /\ UNCHANGED <<handles, slivers, allocs, perr, lastop, thr, grp, main, terr, tm, call, sw>>

\* joint_a, joint_b, column_a_times_b .manipulate_size(offset)
QReconcile ==
    /\ q.pc = "materialize" /\ Returned(<<2, 3>>)
    /\ q' = [q EXCEPT !.pc = "multiply", !.joint = manipulate_size(ColH, q.offset)]
    /\ UNCHANGED <<handles, slivers, allocs, perr, lastop, thr, grp, main, terr, tm, call, sw>>

\* the loop over reduced_ab.segment_count(), checksum(r, s), and the exit
\* code of main()
QFinalize ==
    /\ q.pc = "multiply" /\ Returned(<<5>>)
    /\ LET final_sum == col_sum(q.reduced, 0, segment_count(RedH))
           safe_sum == checksum(q.N)
       IN  q' = [q EXCEPT !.pc = "done", !.final_sum = final_sum, !.safe_sum = safe_sum,
                          !.exit = IF final_sum = safe_sum THEN 0 ELSE 1]
    /\ UNCHANGED <<handles, slivers, allocs, perr, lastop, thr, grp, main, terr, tm, call, sw>>

\* query() when the buffers are allocated and the five groups are created:
\* the threads wait, the fresh buffers are zero.  R has N rows with
\* a[i] = i + 1, b[i] = 10^i and any keys, S any set of keys.
InitQuery ==
    /\ \E N \in 0..MaxRows : \E fk \in [0..(N - 1) -> Keys] : \E pk \in SUBSET Keys :
          LET G == segment_count(QHandle(N, 1, SegElems))
              zero == [i \in 0..(N - 1) |-> 0]
          IN  q = [pc |-> "build", N |-> N, pk |-> pk, table |-> {},
                   fk |-> Column(N, fk),
                   a |-> Column(N, [i \in 0..(N - 1) |-> i + 1]),
                   b |-> Column(N, [i \in 0..(N - 1) |-> 10 ^ i]),
                   positions |-> Column(N, zero),
                   joint_a |-> Column(N, zero),
                   joint_b |-> Column(N, zero),
                   prod |-> Column(N, zero),
                   lengths |-> [i \in 0..(G - 1) |-> 0],
                   mat_offset |-> [i \in 0..(G - 1) |-> 0],
                   reduced |-> [i \in 0..(G - 1) |-> 0],
                   offset |-> 0,
                   joint |-> QHandle(N, 2, 2 * SegElems),
                   wr |-> [g \in {2, 3} |-> Column(N, zero)],
                   rd |-> [g \in {4, 5} |-> {}],
                   k |-> [g \in QGroups |-> [w \in 1..QWorkers |-> 0]],
                   final_sum |-> 0, safe_sum |-> 0, exit |-> -1]
    /\ grp = [g \in QGroups |->
                [NoGroup EXCEPT !.st = "created", !.n = QWorkers,
                                !.w = [i \in 1..QWorkers |-> NewWorker]]]
    /\ main = [cur |-> MainIdle, ret |-> NoRet]
    /\ terr = [terminated |-> FALSE, race |-> FALSE]
    /\ handles = <<>> /\ slivers = <<>> /\ allocs = <<>>
    /\ perr = NoErr /\ lastop = NoOp /\ thr = <<>>
    /\ tm = <<>> /\ call = <<>> /\ sw = <<>>

NextQuery ==
    \/ QBuild
    \/ QRun("probe", <<>>, <<1>>)
    \/ QOffsets
    \/ QRun("materialize", <<1>>, <<2, 3>>)
    \/ QReconcile
    \/ QRun("multiply", <<2, 3>>, <<4>>)
    \/ QRun("multiply", <<4>>, <<5>>)
    \/ QFinalize
    \/ TMRunStart
    \/ TMJoinBegin
    \/ TMJoinEnd
    \/ \E g \in QGroups, w \in 1..QWorkers :
          \/ WStart(g, w)
          \/ QWork(g, w)
          \/ QWReturn(g, w)
          \/ WJoinBegin(g, w)
          \/ WJoinEnd(g, w)

SpecQuery == InitQuery /\ [][NextQuery]_vars

\* ------------------------------------------------------- thread claims
\* every worker of group g has returned from its operator
AllReturned(g) == \A w \in DOMAIN grp[g].w : grp[g].w[w].pc \in {"join", "exit"}

\* the group ids of a group_ids list
Listed(ids) == {ids[j] : j \in DOMAIN ids}

C7_OnceAndJoinOnlyAfterReturn ==
    \A g \in Groups :
        /\ \A w \in DOMAIN grp[g].w :
              /\ grp[g].w[w].inv <= 1
              /\ grp[g].w[w].pc # "wait" => grp[g].w[w].inv = 1
        /\ grp[g].hjoined => AllReturned(g)

\* C7: in a group started with run_async no worker ever invokes the operator
\* twice, every worker invokes it once the group is started, the join of the
\* handle never completes while a worker is still in the operator, and it
\* does complete once all workers of the group have returned
C7_WorkersRunOnceJoinIffReturned ==
    /\ []C7_OnceAndJoinOnlyAfterReturn
    /\ \A g \in Groups :
          grp[g].fired ~> (\A w \in DOMAIN grp[g].w : grp[g].w[w].inv = 1)
    /\ \A g \in Groups :
          (main.cur.op = "hjoin" /\ main.cur.g = g /\ AllReturned(g)) ~> grp[g].hjoined

\* C7 witness: the join of the handle of a group of more than one worker has
\* completed, each worker having invoked the operator once
C7_Witness ==
    \E g \in Groups :
        /\ grp[g].n > 1 /\ grp[g].hjoined
        /\ main.ret = [op |-> "hjoin", ids |-> <<>>, res |-> "ok"]
        /\ \A w \in DOMAIN grp[g].w : grp[g].w[w].inv = 1

C9_ReleaseAllThenWaitForAll ==
    /\ main.cur.op = "tm_join" => \A g \in Listed(main.cur.ids) : grp[g].sat
    /\ (main.ret.op = "tm_run" /\ main.ret.res = "ok")
          => \A g \in Listed(main.ret.ids) : grp[g].sat /\ AllReturned(g)

\* C9 witness: ThreadManager::run of two groups, one of them of more than
\* one worker, has returned
C9_Witness ==
    /\ main.ret.op = "tm_run" /\ main.ret.res = "ok"
    /\ Cardinality(Listed(main.ret.ids)) = 2
    /\ \E g \in Listed(main.ret.ids) : grp[g].n > 1

\* C10: start_pistol.set_value() is called at most once on a group's promise
C10_PromiseSetAtMostOnce ==
    \A g \in Groups : grp[g].sets <= 1

\* the group a step of the first loop of ThreadManager::run / run_async
\* calls run_async on
TMStartGroup == main.cur.ids[main.cur.k + 1]

C11_NoSecondInvocation ==
    \A g \in Groups : \A w \in DOMAIN grp[g].w : grp[g].w[w].inv <= 1

\* C11: run_async on a group that run_async has started, called directly or
\* from the loop of ThreadManager::run / run_async, ends with "ThreadGroup
\* already started" and leaves every group as it was: no promise is set, no
\* worker is released; and no worker ever invokes its operator twice
C11_SecondRunAsyncFails ==
    /\ [][\A g \in Groups :
            /\ (RunAsync(g) /\ grp[g].fired)
                  => (grp' = grp /\ main'.ret.res = "already_started")
            /\ (TMRunStart /\ TMStartGroup = g /\ grp[g].st = "created" /\ grp[g].fired)
                  => (grp' = grp /\ main'.ret.res = "already_started"
                        /\ main'.cur = MainIdle)]_vars
    /\ []C11_NoSecondInvocation

\* C11 witness: run_async has just failed on the one group that was started,
\* whose workers are in their operator
C11_Witness ==
    /\ main.ret = [op |-> "run_async", ids |-> <<>>, res |-> "already_started"]
    /\ \E g \in Groups :
          /\ grp[g].fired
          /\ \A h \in Groups \ {g} : ~grp[h].fired
          /\ \A w \in DOMAIN grp[g].w : grp[g].w[w].pc = "op" /\ grp[g].w[w].inv = 1

\* ------------------------------------------------------- pinning claims
\* the CPU ids of a sub-range in the order they are given out: ascending, or
\* descending from hi - 1 when the sub-range is reversed
SubRangeCpus(sr) == [k \in 1..length(sr) |-> IF sr.rev THEN sr.hi - k ELSE sr.lo + k - 1]

RECURSIVE RangeCpus(_)
RangeCpus(range) ==
    IF range = <<>> THEN <<>> ELSE SubRangeCpus(Head(range)) \o RangeCpus(Tail(range))

\* C14: get_cpu_id(i, range) is the (i mod L)-th CPU id of the range counted
\* through the sub-ranges in list order (from the high end inside a reversed
\* sub-range), L > 0 being the total length; it lies in [lo, hi) of a
\* sub-range
C14_GetCpuIdWraps ==
    (call.fn = "get_cpu_id" /\ call.done) =>
        /\ call.res = RangeCpus(call.range)[(call.thread_id % TotalLength(call.range)) + 1]
        /\ \E j \in DOMAIN call.range :
              call.range[j].lo <= call.res /\ call.res < call.range[j].hi

\* C14 witness: an index beyond the total length that wraps into a reversed
\* second sub-range
C14_Witness ==
    /\ call.fn = "get_cpu_id" /\ call.done
    /\ call.thread_id > TotalLength(call.range)
    /\ Len(call.range) = 2 /\ call.range[2].rev /\ ~call.range[1].rev
    /\ call.range[1].hi <= call.range[2].lo
    /\ call.res = call.range[2].lo /\ length(call.range[2]) = 2

\* C12: a create_thread_group call with thread_count = 0 ends with
\* std::invalid_argument, one with an id that is registered with
\* std::runtime_error, and a call that fails leaves the groups (no thread is
\* made), thread_pinnings and next_core_index as they were
C12_FailedCreateChangesNothing ==
    [][(main'.ret.op = "create_thread_group" /\ main'.ret # main.ret) =>
          LET g == main'.ret.ids[1]
              n == main'.ret.ids[2]
          IN  /\ n = 0 => main'.ret.res = "invalid_argument"
              /\ (n > 0 /\ grp[g].st # "none") => main'.ret.res = "runtime_error"
              /\ (n > 0 /\ grp[g].st = "none") => main'.ret.res = "ok"
              /\ main'.ret.res # "ok" => (grp' = grp /\ tm' = tm)]_vars

\* C12 witness: a call with the id of a registered, pinned group has failed
C12_Witness ==
    /\ main.ret.op = "create_thread_group" /\ main.ret.res = "runtime_error"
    /\ tm.pin_policy = "automatic"
    /\ grp[main.ret.ids[1]].st = "created"
    /\ grp[main.ret.ids[1]].n # main.ret.ids[2]

\* the worker counts of the first k groups created
RECURSIVE WorkersOfFirst(_)
WorkersOfFirst(k) ==
    IF k = 0 THEN 0 ELSE grp[tm.created[k]].n + WorkersOfFirst(k - 1)

\* C13: under the automatic policy worker i of the k-th created group is
\* pinned to get_cpu_id(W_0 + ... + W_(k-1) + i, range), and next_core_index
\* is the sum of the worker counts of all groups created
C13_AutomaticPinning ==
    tm.pin_policy = "automatic" =>
        /\ \A k \in DOMAIN tm.created :
              LET g == tm.created[k]
              IN  tm.thread_pinnings[g] =
                    [i \in 1..grp[g].n |->
                        get_cpu_id(WorkersOfFirst(k - 1) + (i - 1), tm.pin_range)]
        /\ tm.next_core_index = WorkersOfFirst(Len(tm.created))

\* C13 witness: two groups were created and the cursor has passed the end
\* of the range
C13_Witness ==
    /\ tm.pin_policy = "automatic"
    /\ Len(tm.created) = 2
    /\ grp[tm.created[1]].n = 2
    /\ tm.next_core_index > TotalLength(tm.pin_range)

\* ------------------------------------------------------ placement claims
HbmNodes(cfg) == {n \in DOMAIN cfg : cfg[n] = "HBM"}
DramNodes(cfg) == {n \in DOMAIN cfg : cfg[n] = "DRAM"}
Smallest(nodes) == CHOOSE m \in nodes : \A x \in nodes : m <= x

\* C15: for a node map that is not empty predict(LINEAR) returns the
\* smallest HBM node id, or the smallest node id of any class when there is no
\* HBM node, and predict(RANDOM) returns the smallest DRAM node id
C15_PredictPicksSmallest ==
    (call.fn = "predict" /\ call.done /\ DOMAIN call.cfg # {}) =>
        /\ call.pattern = "LINEAR" =>
              /\ call.res = "ok"
              /\ call.node = IF HbmNodes(call.cfg) # {} THEN Smallest(HbmNodes(call.cfg))
                             ELSE Smallest(DOMAIN call.cfg)
        /\ (call.pattern = "RANDOM" /\ DramNodes(call.cfg) # {}) =>
              /\ call.res = "ok"
              /\ call.node = Smallest(DramNodes(call.cfg))
        /\ (call.cfg = (0 :> "DRAM" @@ 1 :> "HBM")) =>
              call.node = IF call.pattern = "LINEAR" THEN 1 ELSE 0
        /\ (call.cfg = (0 :> "DRAM") /\ call.pattern = "LINEAR") => call.node = 0

\* C15 witness: predict(LINEAR) fell back to a DRAM node that is not node 0
C15_Witness ==
    /\ call.fn = "predict" /\ call.done /\ call.pattern = "LINEAR"
    /\ HbmNodes(call.cfg) = {} /\ call.res = "ok" /\ call.node > 0

\* C16: with an empty node map predict fails with "no NUMA nodes available"
\* (ConfigMissing) for LINEAR and for RANDOM; with a map that is not empty
\* and has no DRAM node predict(RANDOM) fails with "no NUMA node found for
\* memory type" (NoSuchMemoryClass) and predict(LINEAR) does not fail
C16_PredictErrors ==
    (call.fn = "predict" /\ call.done) =>
        /\ DOMAIN call.cfg = {} => call.res = "no_nodes"
        /\ (DOMAIN call.cfg # {} /\ DramNodes(call.cfg) = {} /\ call.pattern = "RANDOM") =>
              call.res = "no_node_of_type"
        /\ (DOMAIN call.cfg # {} /\ call.pattern = "LINEAR") => call.res = "ok"

\* C17 as claimed: vmalloc without a pattern allocates on the node that
\* predict(RANDOM) gives, the smallest DRAM node of the configuration
C17_DefaultIsPredictRandom ==
    (call.fn = "vmalloc" /\ call.done /\ call.pattern = "unspecified") =>
        /\ predict(call.cfg, "RANDOM").st = "ok"
        /\ call.node = predict(call.cfg, "RANDOM").node

\* the handle a vmalloc call made: the only live one
Made == CHOOSE h \in LiveSlots : TRUE

\* C17 (amended): vmalloc without a pattern allocates on node 0 under every
\* configuration, and the handle returned has ref_cnt = 1 and covers all n
\* elements
C17_DefaultIsNodeZero ==
    (call.fn = "vmalloc" /\ call.done /\ call.pattern = "unspecified") =>
        /\ call.res = "ok" /\ call.node = 0
        /\ LiveSlots # {}
        /\ handles[Made].ai # NullAlloc
        /\ allocs[handles[Made].ai].ref_cnt = 1
        /\ handles[Made].start = 0
        /\ size(handles[Made]) = call.n
        /\ allocs[handles[Made].ai].size_bytes = call.n * call.t

\* C17 witness: vmalloc without a pattern returned while the smallest DRAM
\* node of the configuration is not node 0
C17_Witness ==
    /\ call.fn = "vmalloc" /\ call.done /\ call.pattern = "unspecified"
    /\ DramNodes(call.cfg) # {} /\ Smallest(DramNodes(call.cfg)) = 1
    /\ call.n = MaxElems /\ LiveSlots # {}

\* --------------------------------------------------------- access claims
\* C18: operator[] and data succeed exactly on a handle that is not empty
\* with index < size(), get_segment exactly on a handle that is not empty
\* with index < segment_count(); on an empty handle they throw
\* std::logic_error, on an index out of range std::out_of_range, and an access
\* that fails changes no handle and no reference count
C18_AccessChecked ==
    [][call' # call =>
          LET p == handles[call'.h]
              limit == IF call'.fn = "get_segment"
                       THEN (p.size_bytes + p.seg - 1) \div p.seg
                       ELSE p.size_bytes \div p.tsize
          IN  /\ call'.res = "ok" <=> (p.ai # NullAlloc /\ call'.i < limit)
              /\ p.ai = NullAlloc => call'.res = "logic_error"
              /\ (p.ai # NullAlloc /\ call'.i >= limit) => call'.res = "out_of_range"
              /\ call'.res # "ok" =>
                    handles' = handles /\ allocs' = allocs /\ slivers' = slivers]_vars

\* C18 witness: get_segment was refused for the index just past the last
\* segment of a handle that was shrunk
C18_Witness ==
    /\ call.fn = "get_segment" /\ call.res = "out_of_range"
    /\ handles[call.h].ai # NullAlloc
    /\ call.i = segment_count(handles[call.h])
    /\ 0 < size(handles[call.h]) /\ size(handles[call.h]) < MaxElems

\* ---------------------------------------------------------- query claims
RECURSIVE JoinSum(_)
\* the sum of a[i] * b[i] over the rows i < n of R whose fk[i] is in S.pk
JoinSum(n) ==
    IF n = 0 THEN 0
    ELSE JoinSum(n - 1) + (IF q.fk[n - 1] \in q.pk THEN (n * (10 ^ (n - 1))) ELSE 0)

\* C19: for every R and S query() comes to its end with final_sum equal to
\* the sum of a[i] * b[i] over the rows of R whose fk occurs in S.pk, and
\* the driver exits with 0 exactly when final_sum equals safe_sum
C19_QueryEquivalence ==
    /\ q.pc # "aborted"
    /\ q.pc = "done" =>
          /\ q.final_sum = JoinSum(q.N)
          /\ q.exit = 0 <=> q.final_sum = q.safe_sum

\* with a table S that is not empty the query ends with the right sum
QueryRightForNonEmptyS ==
    q.pk # {} => C19_QueryEquivalence /\ (q.pc = "done" => q.exit = 0)

Finished(g) == \A w \in DOMAIN grp[g].w : grp[g].w[w].pc = "exit"
Started(g) == \E w \in DOMAIN grp[g].w : grp[g].w[w].pc # "wait"

\* C20: the stages of query() follow one another: a worker has left its
\* barrier only when every worker of the stage before it has ended and the
\* sequential step before it is done; the prefix-sum step runs when every
\* probe worker has ended and no materialize worker has started
C20_StagesInOrder ==
    /\ [](/\ Started(1) => q.pc # "build"
          /\ (Started(2) \/ Started(3)) => (Finished(1) /\ q.pc \notin {"build", "probe"})
          /\ Started(4) => (Finished(2) /\ Finished(3) /\ q.pc \in {"multiply", "done"})
          /\ Started(5) => Finished(4)
          /\ q.pc = "done" => Finished(5))
    /\ [][q'.mat_offset # q.mat_offset \/ (q.pc = "probe" /\ q'.pc = "materialize") =>
            /\ Finished(1) /\ ~Started(2) /\ ~Started(3)
            /\ \A g \in {2, 3} : \A w \in DOMAIN grp'[g].w : grp'[g].w[w].pc = "wait"]_vars
    /\ [][q'.joint # q.joint => (Finished(2) /\ Finished(3) /\ ~Started(4))]_vars

\* C20 witness: the query has ended over two segments, the second one short
C20_Witness ==
    /\ q.pc = "done" /\ q.exit = 0
    /\ q.N = MaxRows /\ q.offset > 0 /\ q.final_sum > 0

\* C26: after the offset step mat_offset[i] is the sum of lengths[j] over
\* j < i for every segment i, and offset (the total) is the sum of all
\* lengths
C26_PrefixSums ==
    q.pc \in {"materialize", "multiply", "done"} =>
        /\ \A i \in DOMAIN q.mat_offset : q.mat_offset[i] = col_sum(q.lengths, 0, i)
        /\ q.offset = col_sum(q.lengths, 0, segment_count(SegH))

\* C26 witness: the offsets of two segments with matches are computed
C26_Witness ==
    /\ q.pc = "materialize"
    /\ q.N = MaxRows /\ q.lengths[0] = SegElems /\ q.lengths[1] >= 1
    /\ q.mat_offset[1] = SegElems /\ q.offset > SegElems

\* C27: the output regions [mat_offset[i], mat_offset[i] + lengths[i]) of
\* the materialize stage are pairwise disjoint and lie within [0, total),
\* and no element of joint_a or joint_b is written twice
C27_RegionsDisjoint ==
    /\ q.pc \in {"materialize", "multiply", "done"} =>
          \A i, j \in DOMAIN q.lengths :
              /\ q.mat_offset[i] + q.lengths[i] <= q.offset
              /\ i < j => q.mat_offset[i] + q.lengths[i] <= q.mat_offset[j]
    /\ \A g \in {2, 3} : \A i \in DOMAIN q.wr[g] :
          /\ q.wr[g][i] <= 1
          /\ q.wr[g][i] = 1 => i < q.offset

\* C27 witness: both workers of both materialize groups have written their
\* regions, none of them empty
C27_Witness ==
    /\ Finished(2) /\ Finished(3) /\ q.pc = "materialize"
    /\ q.N = MaxRows /\ q.lengths[0] >= 1 /\ q.lengths[1] >= 1
    /\ \A g \in {2, 3} : \A i \in 0..(q.offset - 1) : q.wr[g][i] = 1

\* C28: worker w of a group is handed element w of split(thread_count) of
\* every split argument, and the i-th segments of all its split arguments
\* are one and the same segment of their parent columns
C28_SplitArgsAligned ==
    \A g \in QGroups, w \in 1..QWorkers :
        /\ \A j \in DOMAIN SplitArgs(g) :
              Sliver(g, j, w) = split_sliver(SplitArgs(g)[j], QWorkers, w - 1)
        /\ \A k \in 0..(NSeg(g, w) - 1) :
              \E i \in 0..(segment_count(SplitArgs(g)[1]) - 1) :
                 \A j \in DOMAIN SplitArgs(g) :
                    /\ ~Throws(Sliver(g, j, w), k)
                    /\ ~Throws(SplitArgs(g)[j], i)
                    /\ get_segment(Sliver(g, j, w), k).addr
                          = get_segment(SplitArgs(g)[j], i).addr

\* C28 witness: the second worker of every group has worked on its segment
\* of a table of two segments
C28_Witness ==
    /\ q.N = MaxRows /\ q.pc = "done"
    /\ \A g \in QGroups : NSeg(g, QWorkers) >= 1 /\ q.k[g][QWorkers] = NSeg(g, QWorkers)

\* C25: after the reconciliation the multiply and reduce_add workers process
\* exactly the elements [0, total): the slivers they hold add up to the
\* reconciled size and no worker touches an index >= total
C25_ReconciledRange ==
    \A g \in {4, 5} :
        /\ \A i \in q.rd[g] : i < q.offset
        /\ (Finished(g) /\ q.pc # "aborted") => q.rd[g] = 0..(q.offset - 1)
        /\ (Started(g) /\ q.pc # "aborted") =>
              size(Sliver(g, 2, 1)) + size(Sliver(g, 2, QWorkers)) = size(q.joint)

\* the multiply and reduce_add workers process the whole segments of the
\* columns as they were allocated
ProcessedAsAllocated ==
    \A g \in {4, 5} :
        (Finished(g) /\ q.pc # "aborted") =>
            q.rd[g] = 0..(segment_count(ColH) * SegElems - 1)

\* ------------------------------------------- handle claims, second part
\* C23: manipulate_size(new_count) on handle h sets the size_bytes of h to
\* new_count * sizeof(T) and changes nothing else: not the start and
\* alloc_info of h, not the allocation's size_bytes and ref_cnt, not any
\* other handle or sliver
C23_ManipulateSizeFrame ==
    [][(lastop'.op = "manipulate_size" /\ <<handles, lastop>>' # <<handles, lastop>>) =>
          /\ handles' = [handles EXCEPT ![lastop'.h].size_bytes =
                                           lastop'.n * handles[lastop'.h].tsize]
          /\ allocs' = allocs
          /\ slivers' = slivers]_vars

\* C23 witness: a handle of 2-byte elements was shrunk while a copy of it
\* and slivers of it exist
C23_Witness ==
    /\ lastop.op = "manipulate_size" /\ lastop.n = 1
    /\ handles[lastop.h].tsize = 2 /\ handles[lastop.h].size_bytes = 2
    /\ \E o \in LiveSlots : /\ o # lastop.h
                             /\ handles[o].ai = handles[lastop.h].ai
                             /\ handles[o].size_bytes > 2
    /\ Len(slivers) > 0

\* C24: a cast yields a handle with the alloc_info, start and size_bytes of
\* its source and raises ref_cnt by exactly 1; a cast to U and back to T
\* gives the (alloc_info, start, size_bytes) of the original
C24_CastSharesAllocation ==
    lastop.op = "cast" =>
        LET p == handles[lastop.h]
            c == handles[lastop.n]
        IN  /\ ~perr.nullderef
            /\ c.live
            /\ c.ai = p.ai /\ c.start = p.start /\ c.size_bytes = p.size_bytes
            /\ p.ai # NullAlloc
            /\ allocs[p.ai].ref_cnt = lastop.pre_ref + 1
            /\ \A u \in TypeSizes :
                  LET back == _cast(_cast(p, u), p.tsize)
                  IN  <<back.ai, back.start, back.size_bytes>>
                        = <<p.ai, p.start, p.size_bytes>>

\* a cast of a handle that holds an allocation does what C24 says
CastRightForNonEmpty ==
    (lastop.op = "cast" /\ handles[lastop.h].ai # NullAlloc /\ ~perr.nullderef)
        => C24_CastSharesAllocation

\* C29: right after p.split(n) the byte windows of the slivers follow one
\* another from p.start without gap or overlap, and each lies inside p's
\* window and inside the allocation: no sliver reaches past p's last element
C29_SliverWindows ==
    (lastop.op = "split" /\ handles[lastop.h].ai # NullAlloc) =>
        LET p == handles[lastop.h]
            n == Len(slivers)
        IN  /\ n = lastop.n
            /\ slivers[1].start = p.start
            /\ \A i \in 1..(n - 1) :
                  slivers[i + 1].start = slivers[i].start + slivers[i].size_bytes
            /\ \A i \in 1..n :
                  /\ slivers[i].start + slivers[i].size_bytes <= p.start + p.size_bytes
                  /\ slivers[i].start + slivers[i].size_bytes <= allocs[p.ai].size_bytes

\* C30: the size_bytes of every handle that exists is a multiple of the
\* size of its element type
C30_SizeMultipleOfElement ==
    \A p \in AllHandles : p.size_bytes % p.tsize = 0


\* ------------------------------------------------------------ stop watch
MaxCalls == 5        \* start_time / stop_time calls in one sequence of a caller
InitRounds == 3      \* init_round_size of the timers (1000 in stop_watch.hpp, 1 in query.cpp)
TWorkers == 2        \* workers of the timed thread group

double_call_policy == {"forbidden", "save_earliest", "save_latest"}

\* stop_watch_round, default-initialised
NoRound == [start |-> 0, end |-> 0]

\* stop_watch(epoch, init_round_size) of the class instantiated with
\* AUTO_EXPAND, START_POLICY, STOP_POLICY.  failed: an assertion has failed;
\* oob: an element past the end of rounds was written
stop_watch(auto_expand, start_policy, stop_policy, init_round_size) ==
    [rounds |-> [i \in 1..init_round_size |-> NoRound], current |-> 0,
     taking_time |-> FALSE, expand_size |-> init_round_size,
     auto_expand |-> auto_expand, start_policy |-> start_policy,
     stop_policy |-> stop_policy, failed |-> FALSE, oob |-> FALSE]

\* group_timer_t and thread_timer_t
group_timer_t(init_round_size) ==
    stop_watch(FALSE, "save_earliest", "save_latest", init_round_size)
thread_timer_t == stop_watch(FALSE, "forbidden", "forbidden", InitRounds)

\* rounds[index].start = t / rounds[index].end = t (index from 0)
SetRound(w, index, field, t) ==
    IF index < Len(w.rounds)
    THEN [w EXCEPT !.rounds[index + 1][field] = t]
    ELSE [w EXCEPT !.oob = TRUE]

\* assert(!taking_time) of start_time fails
DoubleStart(w) == w.taking_time

\* (mutant) the assertion of stop_time holds before the first round
DoubleStopMut(w) == ~w.taking_time /\ w.current > 0
\* assert(taking_time) of stop_time fails
DoubleStop(w) == ~w.taking_time

\* (mutant) save_earliest overwrites the start of the running round
start_time_mut(w, now) ==
    IF w.start_policy = "forbidden" /\ DoubleStart(w)
    THEN [w EXCEPT !.failed = TRUE]
    ELSE IF w.taking_time
    THEN SetRound(w, w.current, "start", now)
    ELSE LET e == IF w.auto_expand /\ w.current = Len(w.rounds)
                  THEN [w EXCEPT !.rounds = @ \o [i \in 1..w.expand_size |-> NoRound]]
                  ELSE w
         IN  SetRound([e EXCEPT !.taking_time = TRUE], e.current, "start", now)

\* start_time() when clock_type::now() gives now
start_time(w, now) ==
    IF w.start_policy = "forbidden" /\ DoubleStart(w)
    THEN [w EXCEPT !.failed = TRUE]
    ELSE IF w.start_policy = "save_earliest" /\ w.taking_time
    THEN w
    ELSE IF w.start_policy = "save_latest" /\ w.taking_time
    THEN SetRound(w, w.current, "start", now)
    ELSE LET e == IF w.auto_expand /\ w.current = Len(w.rounds)
                  THEN [w EXCEPT !.rounds = @ \o [i \in 1..w.expand_size |-> NoRound]]
                  ELSE w
         IN  SetRound([e EXCEPT !.taking_time = TRUE], e.current, "start", now)

\* (mutant) save_latest completes a round on every stop_time()
stop_time_mut(w, end) ==
    IF w.stop_policy = "forbidden" /\ DoubleStop(w)
    THEN [w EXCEPT !.failed = TRUE]
    ELSE IF w.stop_policy = "save_earliest" /\ ~w.taking_time
    THEN w
    ELSE [SetRound(w, w.current, "end", end) EXCEPT !.taking_time = FALSE,
                                                    !.current = @ + 1]

\* stop_time() when clock_type::now() gives end
stop_time(w, end) ==
    IF w.stop_policy = "forbidden" /\ DoubleStop(w)
    THEN [w EXCEPT !.failed = TRUE]
    ELSE IF w.stop_policy = "save_earliest" /\ ~w.taking_time
    THEN w
    ELSE IF w.stop_policy = "save_latest" /\ ~w.taking_time
    THEN IF w.current > 0 THEN SetRound(w, w.current - 1, "end", end) ELSE w
    ELSE [SetRound(w, w.current, "end", end) EXCEPT !.taking_time = FALSE,
                                                    !.current = @ + 1]

\* the process goes on: no assertion has failed, no write went past rounds
WatchOk ==
    /\ ~sw.w.failed /\ ~sw.w.oob /\ ~sw.group.failed /\ ~sw.group.oob
    /\ \A t \in DOMAIN sw.timer : ~sw.timer[t].failed /\ ~sw.timer[t].oob

\* a caller's start_time() on its stop watch
SWStart ==
    /\ sw.use = "caller" /\ WatchOk /\ Len(sw.hist) < MaxCalls
    /\ sw' = [sw EXCEPT !.now = @ + 1, !.w = start_time(@, sw.now + 1),
                        !.hist = Append(@, "start")]
    /\ UNCHANGED <<handles, slivers, allocs, perr, lastop, thr, grp, main, terr, tm, call, q>>

\* a caller's stop_time() on its stop watch
SWStop ==
    /\ sw.use = "caller" /\ WatchOk /\ Len(sw.hist) < MaxCalls
    /\ sw' = [sw EXCEPT !.now = @ + 1, !.w = stop_time(@, sw.now + 1),
                        !.hist = Append(@, "stop")]
    /\ UNCHANGED <<handles, slivers, allocs, perr, lastop, thr, grp, main, terr, tm, call, q>>

\* thread_func: if constexpr (MEASURE_GROUP) group_timer.start_time(), under
\* the mutex of concurrent_stop_watch
TGroupStart(t) ==
    /\ sw.use = "group" /\ WatchOk /\ sw.pc[t] = "group_start"
    /\ sw' = IF sw.measure_group
             THEN [sw EXCEPT !.now = @ + 1, !.group = start_time(@, sw.now + 1),
                             !.at[t].start = sw.now + 1, !.pc[t] = "thread_start"]
             ELSE [sw EXCEPT !.pc[t] = "thread_start"]
    /\ UNCHANGED <<handles, slivers, allocs, perr, lastop, thr, grp, main, terr, tm, call, q>>

\* thread_func: if constexpr (MEASURE_THREAD) thread_timer.start_time()
TThreadStart(t) ==
    /\ sw.use = "group" /\ WatchOk /\ sw.pc[t] = "thread_start"
    /\ sw' = IF sw.measure_thread
             THEN [sw EXCEPT !.now = @ + 1, !.timer[t] = start_time(@, sw.now + 1),
                             !.pc[t] = "op"]
             ELSE [sw EXCEPT !.pc[t] = "op"]
    /\ UNCHANGED <<handles, slivers, allocs, perr, lastop, thr, grp, main, terr, tm, call, q>>

\* thread_func: std::apply(args.func, args.args)
TApply(t) ==
    /\ sw.use = "group" /\ WatchOk /\ sw.pc[t] = "op"
    /\ sw' = [sw EXCEPT !.pc[t] = "thread_stop"]
    /\ UNCHANGED <<handles, slivers, allocs, perr, lastop, thr, grp, main, terr, tm, call, q>>

\* thread_func: if constexpr (MEASURE_THREAD) thread_timer.stop_time()
TThreadStop(t) ==
    /\ sw.use = "group" /\ WatchOk /\ sw.pc[t] = "thread_stop"
    /\ sw' = IF sw.measure_thread
             THEN [sw EXCEPT !.now = @ + 1, !.timer[t] = stop_time(@, sw.now + 1),
                             !.pc[t] = "group_stop"]
             ELSE [sw EXCEPT !.pc[t] = "group_stop"]
    /\ UNCHANGED <<handles, slivers, allocs, perr, lastop, thr, grp, main, terr, tm, call, q>>

\* thread_func: if constexpr (MEASURE_GROUP) group_timer.stop_time(), under
\* the mutex; _simple_join follows
TGroupStop(t) ==
    /\ sw.use = "group" /\ WatchOk /\ sw.pc[t] = "group_stop"
    /\ sw' = IF sw.measure_group
             THEN [sw EXCEPT !.now = @ + 1, !.group = stop_time(@, sw.now + 1),
                             !.at[t].stop = sw.now + 1, !.pc[t] = "join"]
             ELSE [sw EXCEPT !.pc[t] = "join"]
    /\ UNCHANGED <<handles, slivers, allocs, perr, lastop, thr, grp, main, terr, tm, call, q>>

\* either a stop watch of any of the instantiations in the hands of one
\* caller, or the timers of a group whose workers have passed the barrier
\* (the group timer with any number of rounds up to InitRounds)
InitWatch ==
    /\ \E use \in {"caller", "group"}, auto_expand, mg, mt \in BOOLEAN,
          start_policy, stop_policy \in double_call_policy,
          n \in 1..InitRounds, group_rounds \in 1..InitRounds :
          /\ use = "group" => (auto_expand /\ n = 1 /\ start_policy = "forbidden"
                                 /\ stop_policy = "forbidden")
          /\ use = "caller" => (mg /\ mt /\ group_rounds = InitRounds)
          /\ sw = [use |-> use, now |-> 0, hist |-> <<>>,
                   w |-> stop_watch(auto_expand, start_policy, stop_policy, n),
                   measure_group |-> mg, measure_thread |-> mt,
                   group |-> group_timer_t(group_rounds),
                   timer |-> [t \in 1..TWorkers |-> thread_timer_t],
                   pc |-> [t \in 1..TWorkers |->
                              IF use = "group" THEN "group_start" ELSE "join"],
                   at |-> [t \in 1..TWorkers |-> [start |-> 0, stop |-> 0]]]
    /\ handles = <<>> /\ slivers = <<>> /\ allocs = <<>>
    /\ perr = NoErr /\ lastop = NoOp /\ thr = <<>>
    /\ grp = <<>> /\ main = [cur |-> MainIdle, ret |-> NoRet]
    /\ terr = [terminated |-> FALSE, race |-> FALSE]
    /\ tm = <<>> /\ call = <<>> /\ q = <<>>

NextWatch ==
    \/ SWStart
    \/ SWStop
    \/ \E t \in 1..TWorkers :
          \/ TGroupStart(t)
          \/ TThreadStart(t)
          \/ TApply(t)
          \/ TThreadStop(t)
          \/ TGroupStop(t)

SpecWatch == InitWatch /\ [][NextWatch]_vars

\* ------------------------------------------------------ stop watch claims
\* every worker has left its last timer call
AllTimed == sw.use = "group" /\ \A t \in 1..TWorkers : sw.pc[t] = "join"

\* C21: whatever the interleaving of the workers, each calling
\* group_timer.start_time() once before and stop_time() once after its
\* operator, the group timer ends with exactly one completed round, from
\* the earliest worker start to the latest worker stop
C21_GroupTimerSpansWorkers ==
    (AllTimed /\ sw.measure_group) =>
        /\ sw.group.current = 1
        /\ \A t \in 1..TWorkers :
              /\ sw.group.rounds[1].start <= sw.at[t].start
              /\ sw.group.rounds[1].end >= sw.at[t].stop
        /\ \E t \in 1..TWorkers : sw.group.rounds[1].start = sw.at[t].start
        /\ \E t \in 1..TWorkers : sw.group.rounds[1].end = sw.at[t].stop

\* when every worker starts the group timer before the first one stops it,
\* the group timer holds the one round of C21
OneRoundWhenOverlapping ==
    (\A t, u \in 1..TWorkers : sw.at[t].start < sw.at[u].stop) =>
        C21_GroupTimerSpansWorkers

\* the calls of h are start, stop, start, stop, ...
Alternating(h) ==
    \A i \in 1..Len(h) : h[i] = (IF i % 2 = 1 THEN "start" ELSE "stop")

\* C22: with forbidden/forbidden a start_time() while a measurement runs
\* and a stop_time() while none runs fail their assertion; in a sequence
\* without a failed assertion starts and stops alternate and the completed
\* rounds are as many as the stop_time() calls; the timer of every worker of
\* a group sees one start and then one stop
C22_ForbiddenPolicy ==
    /\ (sw.w.start_policy = "forbidden" /\ sw.w.stop_policy = "forbidden") =>
          /\ sw.w.failed <=> ~Alternating(sw.hist)
          /\ (~sw.w.failed /\ ~sw.w.oob) =>
                /\ sw.w.current = Cardinality({i \in 1..Len(sw.hist) : sw.hist[i] = "stop"})
                /\ sw.w.taking_time <=> (Len(sw.hist) % 2 = 1)
    /\ (sw.use = "group" /\ sw.measure_thread) =>
          \A t \in 1..TWorkers :
              /\ ~sw.timer[t].failed /\ ~sw.timer[t].oob
              /\ sw.timer[t].taking_time <=> sw.pc[t] \in {"op", "thread_stop"}
              /\ sw.timer[t].current = (IF sw.pc[t] \in {"group_stop", "join"} THEN 1 ELSE 0)
              /\ sw.pc[t] \in {"group_stop", "join"} =>
                    /\ sw.timer[t].rounds[1].start > 0
                    /\ sw.timer[t].rounds[1].start < sw.timer[t].rounds[1].end

\* C22 witness: a forbidden/forbidden stop watch has failed on a second
\* stop_time() after one completed round
C22_Witness ==
    /\ sw.use = "caller"
    /\ sw.w.start_policy = "forbidden" /\ sw.w.stop_policy = "forbidden"
    /\ sw.hist = <<"start", "stop", "stop">> /\ sw.w.failed /\ sw.w.current = 1

C33_SaveLatestStop ==
    [][(/\ sw.use = "caller" /\ sw'.hist = Append(sw.hist, "stop")
        /\ sw.w.stop_policy = "save_latest")
         => IF sw.w.taking_time
            THEN /\ sw'.w.current = sw.w.current + 1
                 /\ ~sw'.w.taking_time
                 /\ sw'.w.rounds = [sw.w.rounds EXCEPT ![sw.w.current + 1].end = sw'.now]
            ELSE IF sw.w.current = 0
            THEN sw'.w = sw.w
            ELSE /\ sw'.w.current = sw.w.current
                 /\ ~sw'.w.taking_time
                 /\ sw'.w.rounds = [sw.w.rounds EXCEPT ![sw.w.current].end = sw'.now]]_vars

\* C33 witness: a save_latest stop watch has seen a second stop_time() after
\* its first round; the round ends at the second call
C33_Witness ==
    /\ sw.use = "caller" /\ sw.w.stop_policy = "save_latest"
    /\ sw.hist = <<"start", "stop", "stop">>
    /\ sw.w.current = 1 /\ sw.w.rounds[1] = [start |-> 1, end |-> 3]

\* C38: every write to rounds[current] or rounds[current - 1] uses an index
\* below rounds.size(): for an auto-expanding stop watch such as the one of
\* query() after any sequence of calls, and for the group timer and the
\* worker timers of a group for every number of workers and interleaving
C38_RoundsInBounds ==
    /\ (sw.use = "caller" /\ sw.w.auto_expand) => ~sw.w.oob
    /\ sw.use = "group" =>
          /\ ~sw.group.oob
          /\ \A t \in 1..TWorkers : ~sw.timer[t].oob

\* a group timer with a round for every worker is never written past its
\* end, and the worker timers and an auto-expanding stop watch never are
InBoundsUpToCapacity ==
    /\ (sw.use = "caller" /\ sw.w.auto_expand) => ~sw.w.oob
    /\ sw.use = "group" =>
          /\ Len(sw.group.rounds) >= TWorkers => ~sw.group.oob
          /\ sw.group.current <= TWorkers
          /\ \A t \in 1..TWorkers : ~sw.timer[t].oob

\* ---------------------------------------------------------------------------
\* Joins of the worker threads (ThreadGroup.cpp, ThreadWrapper.cpp)
\* ---------------------------------------------------------------------------

\* worker w of group g, being the group's last worker, is about to call
\* thread_pool[i]->join() in _simple_join on a thread that was joined before
WorkerJoinsJoined(g, w) ==
    /\ grp[g].st # "none" /\ w \in DOMAIN grp[g].w
    /\ grp[g].w[w].pc = "join" /\ ~grp[g].w[w].jb
    /\ ~WrapperDeleted(g, grp[g].w[w].ji + 1)
    /\ ~grp[g].w[grp[g].w[w].ji + 1].joinable

\* ThreadGroup::run() is about to call thread->join() on a thread that was
\* joined before, or has ended with the std::system_error of such a join
RunJoinsJoined ==
    \/ /\ main.cur.op = "run" /\ ~main.cur.begun
       /\ ~grp[main.cur.g].w[main.cur.k + 1].joinable
    \/ main.ret.op = "run" /\ main.ret.res = "system_error"

\* C31: under ThreadGroup::run(), under run_async() followed by a join of the
\* handle, and under destruction of the group every worker thread is joined
\* exactly once: no join is called on a thread that was joined before, and no
\* two threads are inside join() on the same worker thread at the same time.
C31_JoinedExactlyOnce ==
    /\ ~terr.race
    /\ ~RunJoinsJoined
    /\ \A g \in Groups, w \in 1..MaxWorkers : ~WorkerJoinsJoined(g, w)

\* a group of one worker has no second joiner: its only thread is joined by
\* the caller alone, so run() never meets a thread that was joined before
SingleWorkerJoinedOnce ==
    \A g \in Groups :
        grp[g].st \in {"created", "destroying"} /\ grp[g].n = 1
            => /\ \A w \in DOMAIN grp[g].w : grp[g].w[w].pc # "join"
               /\ ~(main.cur.op = "run" /\ main.cur.g = g /\ ~main.cur.begun
                    /\ ~grp[g].w[1].joinable)


\* ---------------------------------------------------------------------------
\* Copies of an empty handle (VamPointer.hpp)
\* ---------------------------------------------------------------------------

\* the step is a copy construction from handle o or a copy assignment of
\* handle o to another handle
CopiesFrom(o) ==
    \/ CopyCtor(o)
    \/ \E h \in Slots \ {o} : CopyAssign(h, o)

\* C36: copy-constructing or copy-assigning from an empty handle yields an
\* empty handle, changes no reference count and never dereferences a null
\* AllocationInfo pointer
C36_CopyOfEmpty ==
    [][\A o \in Slots :
          (handles[o].live /\ handles[o].ai = NullAlloc /\ CopiesFrom(o))
            => /\ ~perr'.nullderef
               /\ \A a \in AllocIds : allocs'[a].ref_cnt = allocs[a].ref_cnt]_vars

\* what the copy of an empty handle does apart from the null dereference: the
\* target has the attributes of the source (no allocation, size 0)
CopyOfEmptyIsEmpty ==
    [][\A o \in Slots :
          (handles[o].live /\ handles[o].ai = NullAlloc /\ CopyCtor(o))
            => \E h \in Slots : /\ ~handles[h].live /\ handles'[h].live
                                /\ handles'[h].ai = NullAlloc
                                /\ handles'[h].size_bytes = 0]_vars


\* ---------------------------------------------------------------------------
\* The query on an empty table S (query.cpp, query.hpp)
\* ---------------------------------------------------------------------------

\* C34: with an empty table S (M = 0) the query comes to its end without an
\* error in allocation, build or probe, with no matching row (total == 0)
\* and final_sum == 0
C34_EmptyRightTable ==
    q.pk = {} =>
        /\ q.pc # "aborted"
        /\ q.pc = "done" => (q.offset = 0 /\ q.final_sum = 0)


\* ---------------------------------------------------------------------------
\* ThreadManager::run and run_async with a list that holds an invalid id
\* ---------------------------------------------------------------------------

\* the groups the running call of ThreadManager::run or run_async has
\* released so far: the first loop has passed main.cur.k ids of the list
ReleasedByCall ==
    IF main.cur.op \in {"tm_start", "tma_start"}
    THEN {main.cur.ids[j] : j \in 1..main.cur.k}
    ELSE {}

\* the step ends the first loop of run or run_async with an exception:
\* std::out_of_range of at() for an unknown id, the std::runtime_error of
\* ThreadGroup::run_async for a group that was started, or the
\* std::future_error of a second set_value
StartLoopThrows ==
    /\ main.cur.op \in {"tm_start", "tma_start"}
    /\ main'.cur.op = "idle"
    /\ main'.ret.res \in {"out_of_range", "already_started", "future_error"}

\* C37: ThreadManager::run(ids) and run_async(ids) are all-or-nothing: when
\* a listed id is unknown or names a group that was started before (an id
\* listed twice included) the call raises an error and has released no
\* worker of any listed group
C37_AllOrNothing ==
    [][StartLoopThrows => ReleasedByCall = {}]_vars

\* the error itself is raised for every list that holds an unknown id or
\* a group that was started: the first loop never passes such an id
InvalidIdRaises ==
    [][\A j \in 1..MaxIds :
          (/\ main.cur.op \in {"tm_start", "tma_start"} /\ main.cur.k + 1 = j
           /\ main' # main
           /\ \/ grp[main.cur.ids[j]].st = "none"
              \/ grp[main.cur.ids[j]].fired)
            => StartLoopThrows]_vars


\* ---------------------------------------------------------------------------
\* Termination of get_cpu_id on the pin ranges the constructor accepts
\* (ThreadManager.cpp, cpu_set_utils.hpp)
\* ---------------------------------------------------------------------------

\* the pin ranges passed to the constructor: lists of sub-ranges [lo, hi)
\* with lo <= hi, the empty list included
PinRanges ==
    UNION {[1..l -> {sr \in SubRanges : ~sr.rev}] : l \in 0..MaxSubRanges}

\* ThreadManager::ThreadManager: pin_range_empty stays true unless some
\* sub-range has `range.first <= range.second`
pin_range_empty(pin_range) ==
    ~\E j \in DOMAIN pin_range : pin_range[j].lo <= pin_range[j].hi

\* ThreadManager(automatic, pin_range): the assert on pin_range_empty; a
\* manager that was constructed pins a thread with get_cpu_id(arg, range)
TMCtor ==
    /\ call.pc = "ctor"
    /\ call' = [call EXCEPT !.pc = IF pin_range_empty(call.range) THEN "assert_failed"
                                   ELSE "loop"]
    /\ UNCHANGED <<handles, slivers, allocs, perr, lastop, thr, grp, main, terr, tm, q, sw>>

\* get_cpu_id: one pass of the body of `while(subrange_size <= thread_id)`
LoopStep ==
    /\ call.pc = "loop"
    /\ ~InSubRange(call.thread_id, length(call.range[call.i]))
    /\ call' = [call EXCEPT !.thread_id = @ - length(call.range[call.i]),
                            !.i = (@ % Len(call.range)) + 1]
    /\ UNCHANGED <<handles, slivers, allocs, perr, lastop, thr, grp, main, terr, tm, q, sw>>

\* get_cpu_id: the loop condition is false and the CPU id is returned
LoopExit ==
    /\ call.pc = "loop"
    /\ InSubRange(call.thread_id, length(call.range[call.i]))
    /\ call' = [call EXCEPT !.pc = "done",
                            !.res = call.thread_id + call.range[call.i].lo]
    /\ UNCHANGED <<handles, slivers, allocs, perr, lastop, thr, grp, main, terr, tm, q, sw>>

InitPinLoop ==
    /\ call \in [fn : {"pin"}, range : PinRanges, arg : 0..MaxIndex,
                  thread_id : 0..MaxIndex, i : {1}, pc : {"ctor"}, res : {0}]
    /\ call.thread_id = call.arg
    /\ handles = <<>> /\ slivers = <<>> /\ allocs = <<>>
    /\ perr = NoErr /\ lastop = NoOp /\ thr = <<>>
    /\ NoThreadGroups
    /\ tm = <<>> /\ q = <<>> /\ sw = <<>>

NextPinLoop ==
    \/ TMCtor
    \/ LoopStep
    \/ LoopExit

\* the thread that runs the constructor and get_cpu_id keeps running
SpecPinLoop ==
    InitPinLoop /\ [][NextPinLoop]_vars /\ WF_vars(TMCtor) /\ WF_vars(LoopStep) /\ WF_vars(LoopExit)

\* C39: get_cpu_id(i, range) terminates for every i >= 0 and every pin range
\* that the ThreadManager constructor accepts under the automatic policy
C39_GetCpuIdTerminates ==
    (call.pc = "loop") ~> (call.pc = "done")

\* on an accepted range that holds at least one CPU the loop ends
TerminatesWithCpus ==
    (call.pc = "loop" /\ TotalLength(call.range) > 0) ~> (call.pc = "done")

\* the loop taken step by step returns what get_cpu_id returns
LoopAgrees ==
    call.pc = "done" => call.res = get_cpu_id(call.arg, call.range)

\* the constructor rejects the empty list and nothing else
CtorRejectsEmptyList ==
    call.pc = "assert_failed" <=> (call.pc # "ctor" /\ call.range = <<>>)


\* ---------------------------------------------------------------------------
\* The order in which the ThreadManager reports its groups (ThreadManager.hpp)
\* ---------------------------------------------------------------------------

\* `for (auto &[id, x] : map)` over a std::map: the keys in ascending order
\* (the group ids of the model are ordered as the strings they stand for)
RECURSIVE MapOrder(_)
MapOrder(keys) ==
    IF keys = {} THEN <<>>
    ELSE LET first == CHOOSE k \in keys : \A o \in keys : k <= o
         IN  <<first>> \o MapOrder(keys \ {first})

\* print_timings: the ids of the groups in the order they are printed
print_timings == MapOrder({g \in Groups : grp[g].st # "none"})

\* print_thread_pinnings: the ids of the groups in the order they are printed
print_thread_pinnings == MapOrder({g \in Groups : tm.thread_pinnings[g] # <<>>})

\* C35: the thread manager keeps its groups in insertion order: print_timings
\* and print_thread_pinnings visit the groups in the order of their
\* creation, whatever their ids
C35_InsertionOrder ==
    /\ print_timings = tm.created
    /\ tm.pin_policy = "automatic" => print_thread_pinnings = tm.created

\* both reports visit every group that was created exactly once
ReportsVisitCreated ==
    /\ Len(print_timings) = Len(tm.created)
    /\ {print_timings[j] : j \in DOMAIN print_timings}
          = {tm.created[j] : j \in DOMAIN tm.created}
    /\ tm.pin_policy = "automatic" =>
          {print_thread_pinnings[j] : j \in DOMAIN print_thread_pinnings}
             = {tm.created[j] : j \in DOMAIN tm.created}

====
